---- MODULE Spec2Model ----
(***************************************************************************)
(* TraceVibe: the requirement-traceability store, its importer             *)
(* (internal/importer), the requirement API of internal/database and the   *)
(* exporter of cmd/serve.go, as a state machine over the SQLite tables.    *)
(*                                                                         *)
(* Row identifiers (hex(randomblob(16)), generateID) are modelled as fresh *)
(* positive integers drawn from nextId.  The created_at / updated_at       *)
(* columns are not modelled.  Whether SQLite enforces foreign keys depends *)
(* on the connection (PRAGMA foreign_keys is only issued by schema.sql on  *)
(* the connection that creates a fresh database), so every operation takes *)
(* the enforcement flag fk as an input.                                    *)
(***************************************************************************)
EXTENDS Integers, Sequences, FiniteSets, TLC

VARIABLES db, nextId, last, steps, hist, reader, requests

vars == <<db, nextId, last, steps, hist, reader, requests>>

\* ------------------------------------------------------------------ bounds

\* Operations per behaviour of Spec (imports, exports, deletions).
MaxSteps == 3
\* Operations per behaviour of SpecFault (imports with injected storage errors).
MaxFaultSteps == 2
\* Operations per behaviour of SpecReq (requirement API calls).
MaxReqSteps == 2
\* Handler calls per behaviour of SpecKeys (successive key generations).
MaxCreates == 12
\* User stories created in a behaviour of SpecKeys.
MaxStories == 1

\* ------------------------------------------------------- SQL value helpers

\* A NULL column (parentIDPtr == nil).
NULL == 0
\* The empty string used as an identifier (Go's zero value of a missing map key).
EmptyId == -1

\* ----------------------------------------------------------- key strings
\* Keys are sequences of one-character strings, compared bytewise as SQLite's
\* default BINARY collation does.

Digits == <<"0", "1", "2", "3", "4", "5", "6", "7", "8", "9">>

IsDigit(c) == \E i \in 1..10 : Digits[i] = c

DigitVal(c) == (CHOOSE i \in 1..10 : Digits[i] = c) - 1

\* The byte value of a character (only the order matters).
Code(c) ==
    IF IsDigit(c) THEN 48 + DigitVal(c)
    ELSE CASE c = "-" -> 45
           [] c = "A" -> 65
           [] c = "C" -> 67
           [] c = "E" -> 69
           [] c = "O" -> 79
           [] c = "P" -> 80
           [] c = "S" -> 83
           [] c = "T" -> 84
           [] c = "U" -> 85
           [] OTHER -> 90

RECURSIVE StrLess(_, _)
\* a < b under memcmp order, a shorter prefix first.
StrLess(a, b) ==
    IF b = <<>> THEN FALSE
    ELSE IF a = <<>> THEN TRUE
    ELSE IF Code(Head(a)) # Code(Head(b)) THEN Code(Head(a)) < Code(Head(b))
    ELSE StrLess(Tail(a), Tail(b))

RECURSIVE Itoa(_)
\* fmt.Sprintf("%d", n) for n >= 0.
Itoa(n) ==
    IF n < 10 THEN <<Digits[n + 1]>>
    ELSE Itoa(n \div 10) \o <<Digits[(n % 10) + 1]>>

RECURSIVE Atoi(_, _)
\* The value of the longest run of leading decimal digits of s, from acc.
Atoi(s, acc) ==
    IF s = <<>> \/ ~IsDigit(Head(s)) THEN acc
    ELSE Atoi(Tail(s), acc * 10 + DigitVal(Head(s)))

HasPrefix(s, p) == Len(s) >= Len(p) /\ SubSeq(s, 1, Len(p)) = p

ScopePrefix == <<"S", "C", "O", "P", "E", "-">>
USInfix == <<"-", "U", "S", "-">>
TSInfix == <<"-", "T", "S", "-">>

ScopeKey(n) == ScopePrefix \o Itoa(n)
USKey(parent, n) == parent \o USInfix \o Itoa(n)
TSKey(parent, n) == parent \o TSInfix \o Itoa(n)

\* strings.ToLower on the requirement type tags in use.
ToLower(t) ==
    CASE t = "SCOPE" -> "scope"
      [] t = "USER_STORY" -> "user_story"
      [] t = "TECH_SPEC" -> "tech_spec"
      [] OTHER -> t

\* --------------------------------------------------------------- the store

EmptyDB ==
    [projects |-> {}, components |-> {}, requirements |-> {},
     implementations |-> {}, test_files |-> {}, test_cases |-> {},
     coverage |-> {}, changes |-> {}, endpoints |-> {}]

ReqIds(d) == {r.id : r \in d.requirements}

RECURSIVE Descendants(_, _)
\* ids together with every requirement reachable from them by parent links.
Descendants(d, ids) ==
    LET more == {r.id : r \in {x \in d.requirements : x.parent \in ids}} \ ids
    IN IF more = {} THEN ids ELSE Descendants(d, ids \cup more)

\* DELETE FROM requirements WHERE id IN ids.  With foreign keys enforced the
\* ON DELETE CASCADE clauses remove the child requirements and the
\* implementations, coverage links and requirement_changes of every removed row.
DeleteRequirementRows(d, ids, fk) ==
    IF fk
    THEN LET gone == Descendants(d, ids)
         IN [d EXCEPT !.requirements = {r \in @ : r.id \notin gone},
                      !.implementations = {i \in @ : i.requirement_id \notin gone},
                      !.coverage = {c \in @ : c.requirement_id \notin gone},
                      !.changes = {c \in @ : c.requirement_id \notin gone}]
    ELSE [d EXCEPT !.requirements = {r \in @ : r.id \notin ids}]

\* DELETE FROM test_cases WHERE id IN ids (coverage links cascade).
DeleteTestCaseRows(d, ids, fk) ==
    LET d1 == [d EXCEPT !.test_cases = {t \in @ : t.id \notin ids}]
    IN IF fk THEN [d1 EXCEPT !.coverage = {c \in @ : c.test_case_id \notin ids}]
       ELSE d1

\* DELETE FROM test_files WHERE id IN ids (test cases cascade).
DeleteTestFileRows(d, ids, fk) ==
    LET d1 == [d EXCEPT !.test_files = {t \in @ : t.id \notin ids}]
    IN IF fk
       THEN DeleteTestCaseRows(d1, {t.id : t \in {x \in d1.test_cases : x.test_file_id \in ids}}, fk)
       ELSE d1

\* DELETE FROM system_components WHERE id IN ids (requirements cascade).
DeleteComponentRows(d, ids, fk) ==
    LET d1 == [d EXCEPT !.components = {c \in @ : c.id \notin ids}]
    IN IF fk
       THEN DeleteRequirementRows(d1, {r.id : r \in {x \in d1.requirements : x.component_id \in ids}}, fk)
       ELSE d1

\* ------------------------------------------------------------ JSON columns

\* models.MarshalStringSliceJSON / Requirement.MarshalAcceptanceCriteriaJSON:
\* the JSON text of a string list ("[]" for a nil or empty one).
MarshalStringSliceJSON(slice) == [json |-> slice]

\* models.UnmarshalStringSliceJSON / json.Unmarshal of a stored list.
UnmarshalStringSliceJSON(data) == data.json

\* ------------------------------------------------- the import transaction
\* A transaction in progress: the working copy of the tables (db), the next
\* fresh identifier, the number of statements issued so far (n), the statement
\* at which the storage fails (failAt, 0 for never), whether this connection
\* enforces foreign keys (fk), the error flag, the componentMap of
\* importRTMData (cm) and the identifier a RETURNING clause handed back (ret).

Begin(d, nid, fk, failAt) ==
    [db |-> d, nextId |-> nid, n |-> 0, failAt |-> failAt, fk |-> fk,
     err |-> FALSE, cm |-> <<>>, ret |-> EmptyId]

\* Evaluate v once and hand its value to F.
Bind(v, F(_)) == CHOOSE r \in {F(x) : x \in {v}} : TRUE

\* "if err != nil { return err }": F runs only on a transaction without error.
Run(v, F(_)) == Bind(v, LAMBDA x : IF x.err THEN x ELSE F(x))

\* Issue the next statement.
Stmt(w) == [w EXCEPT !.n = @ + 1]

\* The statement just issued met the injected storage error.
Hit(w) == w.n = w.failAt

Fail(w) == [w EXCEPT !.err = TRUE]

\* One statement whose error is returned: the storage error, or its effect F.
Exec(w, F(_)) == Bind(Stmt(w), LAMBDA x : IF Hit(x) THEN Fail(x) ELSE F(x))

RollbackKeepsWrites(committed, working) == working

\* tx.Rollback() (deferred): the committed tables stay as they were.
Rollback(committed, working) == committed

\* An INSERT OR REPLACE in place of the UPDATE: the row gets a new identifier.
ReplaceProject(w, project) ==
    [w EXCEPT !.db.projects =
         {p \in @ : p.project_key # project.id} \cup
         {[id |-> w.nextId, project_key |-> project.id,
           name |-> project.name, description |-> project.description,
           repository_url |-> project.repository,
           version |-> project.version, status |-> "active"]},
      !.nextId = @ + 1]

UpsertProject(w, project) ==
    IF \E p \in w.db.projects : p.project_key = project.id
    THEN [w EXCEPT !.db.projects =
             {IF p.project_key = project.id
              THEN [p EXCEPT !.name = project.name,
                             !.description = project.description,
                             !.repository_url = project.repository,
                             !.version = project.version]
              ELSE p : p \in @}]
    ELSE [w EXCEPT !.db.projects = @ \cup
             {[id |-> w.nextId, project_key |-> project.id,
               name |-> project.name, description |-> project.description,
               repository_url |-> project.repository,
               version |-> project.version, status |-> "active"]},
          !.nextId = @ + 1]

\* SELECT COUNT(*) FROM projects WHERE project_key = ?, then UPDATE or INSERT.
importProject(w, project) ==
    Exec(w, LAMBDA w1 : Exec(w1, LAMBDA w2 : UpsertProject(w2, project)))

ProjectReqIds(d, projectID) ==
    {r.id : r \in {x \in d.requirements : x.project_id = projectID}}

ProjectTestFileIds(d, projectID) ==
    {t.id : t \in {x \in d.test_files : x.project_id = projectID}}

\* The DELETE statements of cleanupProjectData, in order.
DeleteProjectCoverage(w, projectID) ==
    [w EXCEPT !.db.coverage =
        {c \in @ : c.requirement_id \notin ProjectReqIds(w.db, projectID)}]

DeleteProjectTestCases(w, projectID) ==
    [w EXCEPT !.db = DeleteTestCaseRows(w.db,
        {t.id : t \in {x \in w.db.test_cases :
                          x.test_file_id \in ProjectTestFileIds(w.db, projectID)}}, w.fk)]

DeleteProjectTestFiles(w, projectID) ==
    [w EXCEPT !.db = DeleteTestFileRows(w.db, ProjectTestFileIds(w.db, projectID), w.fk)]

KeepProjectImplementations(w, projectID) == w

DeleteProjectImplementations(w, projectID) ==
    [w EXCEPT !.db.implementations =
        {i \in @ : i.requirement_id \notin ProjectReqIds(w.db, projectID)}]

DeleteProjectRequirements(w, projectID) ==
    [w EXCEPT !.db = DeleteRequirementRows(w.db, ProjectReqIds(w.db, projectID), w.fk)]

DeleteProjectEndpoints(w, projectID) ==
    [w EXCEPT !.db.endpoints = {e \in @ : e.project_id # projectID}]

DeleteProjectComponents(w, projectID) ==
    [w EXCEPT !.db = DeleteComponentRows(w.db,
        {c.id : c \in {x \in w.db.components : x.project_id = projectID}}, w.fk)]

\* The last DELETE, FROM project_tech_stacks, touches a table nothing fills.
cleanupProjectData(w, projectID) ==
    Run(Run(Run(Run(Run(Run(Run(
        Exec(w, LAMBDA x : DeleteProjectCoverage(x, projectID)),
        LAMBDA y : Exec(y, LAMBDA x : DeleteProjectTestCases(x, projectID))),
        LAMBDA y : Exec(y, LAMBDA x : DeleteProjectTestFiles(x, projectID))),
        LAMBDA y : Exec(y, LAMBDA x : DeleteProjectImplementations(x, projectID))),
        LAMBDA y : Exec(y, LAMBDA x : DeleteProjectRequirements(x, projectID))),
        LAMBDA y : Exec(y, LAMBDA x : DeleteProjectEndpoints(x, projectID))),
        LAMBDA y : Exec(y, LAMBDA x : DeleteProjectComponents(x, projectID))),
        LAMBDA y : Exec(y, LAMBDA x : x))

\* DELETE FROM projects WHERE id = ?.  With foreign keys enforced the rows
\* whose project_id references the project go with it.
DeleteProjectRow(w, projectID) ==
    LET w1 == [w EXCEPT !.db.projects = {p \in @ : p.id # projectID}]
    IN IF w.fk
       THEN DeleteProjectEndpoints(
                DeleteProjectComponents(
                    DeleteProjectRequirements(
                        DeleteProjectTestFiles(w1, projectID), projectID),
                    projectID),
                projectID)
       ELSE w1

\* Server.deleteProject: seven DELETE statements in one transaction.
deleteProject(d, nid, projectID, fk, failAt) ==
    Run(Run(Run(Run(Run(Run(
        Exec(Begin(d, nid, fk, failAt),
             LAMBDA x : DeleteProjectCoverage(x, projectID)),
        LAMBDA y : Exec(y, LAMBDA x : DeleteProjectTestCases(x, projectID))),
        LAMBDA y : Exec(y, LAMBDA x : DeleteProjectTestFiles(x, projectID))),
        LAMBDA y : Exec(y, LAMBDA x : DeleteProjectImplementations(x, projectID))),
        LAMBDA y : Exec(y, LAMBDA x : DeleteProjectRequirements(x, projectID))),
        LAMBDA y : Exec(y, LAMBDA x : DeleteProjectComponents(x, projectID))),
        LAMBDA y : Exec(y, LAMBDA x : DeleteProjectRow(x, projectID)))

keepRequirementData(w, requirementID) == w

cleanupEveryRequirementData(w, requirementID) ==
    [w EXCEPT !.db.coverage = {}, !.db.implementations = {}]

\* DELETE FROM requirement_test_coverage / implementations WHERE requirement_id = ?
cleanupRequirementData(w, requirementID) ==
    Run(Exec(w, LAMBDA x : [x EXCEPT !.db.coverage =
                               {c \in @ : c.requirement_id # requirementID}]),
        LAMBDA y : Exec(y, LAMBDA x : [x EXCEPT !.db.implementations =
                               {i \in @ : i.requirement_id # requirementID}]))

\* INSERT INTO system_components ... RETURNING id (UNIQUE(project_id, component_key)).
InsertComponent(w, projectID, component) ==
    IF (\E c \in w.db.components :
           c.project_id = projectID /\ c.component_key = component.id)
       \/ (w.fk /\ projectID \notin {p.id : p \in w.db.projects})
    THEN Fail(w)
    ELSE [w EXCEPT !.db.components = @ \cup
             {[id |-> w.nextId, project_id |-> projectID,
               component_key |-> component.id, name |-> component.name,
               component_type |-> component.type,
               technology |-> component.technology,
               description |-> component.description]},
          !.ret = w.nextId, !.nextId = @ + 1]

\* A SELECT id ... whose error (no row, or a storage error) sends the caller to
\* its INSERT: ret is the identifier found, EmptyId otherwise.
SelectId(w, found) ==
    Bind(Stmt(w), LAMBDA x :
        [x EXCEPT !.ret = IF Hit(x) \/ found = {} THEN EmptyId
                          ELSE (CHOOSE r \in found : TRUE).id])

\* An importComponent that writes the document's attributes over the row it
\* found.
importComponentReplacing(w, projectID, component) ==
    Bind(SelectId(w, {c \in w.db.components :
                         c.project_id = projectID /\ c.component_key = component.id}),
         LAMBDA w1 :
            IF w1.ret # EmptyId
            THEN [w1 EXCEPT !.db.components =
                     {IF c.id = w1.ret
                      THEN [c EXCEPT !.name = component.name,
                                     !.component_type = component.type,
                                     !.technology = component.technology,
                                     !.description = component.description]
                      ELSE c : c \in @}]
            ELSE Exec(w1, LAMBDA x : InsertComponent(x, projectID, component)))

importComponent(w, projectID, component) ==
    Bind(SelectId(w, {c \in w.db.components :
                         c.project_id = projectID /\ c.component_key = component.id}),
         LAMBDA w1 :
            IF w1.ret # EmptyId THEN w1
            ELSE Exec(w1, LAMBDA x : InsertComponent(x, projectID, component)))

RECURSIVE importComponents(_, _, _, _)
\* for _, component := range rtmData.SystemComponents
importComponents(w, projectID, comps, i) ==
    IF i > Len(comps) THEN w
    ELSE Run(Run(importComponent(w, projectID, comps[i]),
                 LAMBDA x : [x EXCEPT !.cm =
                     [k \in (DOMAIN x.cm) \cup {comps[i].id} |->
                         IF k = comps[i].id THEN x.ret ELSE x.cm[k]]]),
             LAMBDA y : importComponents(y, projectID, comps, i + 1))

\* componentMap[req.ComponentID]: the empty string for a missing key.
ComponentLookup(cm, key) == IF key \in DOMAIN cm THEN cm[key] ELSE EmptyId

\* INSERT INTO implementations (requirement_id, layer, file_path, functions).
InsertImplementation(w, requirementID, layer, file) ==
    IF w.fk /\ requirementID \notin ReqIds(w.db)
    THEN Fail(w)
    ELSE [w EXCEPT !.db.implementations = @ \cup
             {[id |-> w.nextId, requirement_id |-> requirementID, layer |-> layer,
               file_path |-> file.path,
               functions |-> MarshalStringSliceJSON(file.functions)]},
          !.nextId = @ + 1]

RECURSIVE importImplFiles(_, _, _, _, _)
\* for _, file := range impl.<Layer>.Files
importImplFiles(w, requirementID, layer, files, i) ==
    IF i > Len(files) THEN w
    ELSE Run(Exec(w, LAMBDA x : InsertImplementation(x, requirementID, layer, files[i])),
             LAMBDA y : importImplFiles(y, requirementID, layer, files, i + 1))

importImplementation(w, requirementID, impl) ==
    Run(Run(importImplFiles(w, requirementID, "backend", impl.backend, 1),
            LAMBDA y : importImplFiles(y, requirementID, "frontend", impl.frontend, 1)),
        LAMBDA y : importImplFiles(y, requirementID, "database", impl.database, 1))

\* INSERT INTO test_files ... RETURNING id (UNIQUE(project_id, file_path)).
InsertTestFile(w, projectID, filePath, layer) ==
    IF (\E t \in w.db.test_files : t.project_id = projectID /\ t.file_path = filePath)
       \/ (w.fk /\ projectID \notin {p.id : p \in w.db.projects})
    THEN Fail(w)
    ELSE [w EXCEPT !.db.test_files = @ \cup
             {[id |-> w.nextId, project_id |-> projectID,
               file_path |-> filePath, test_type |-> "unit", layer |-> layer,
               framework |-> IF layer = "frontend" THEN "Jest" ELSE "Go testing"]},
          !.ret = w.nextId, !.nextId = @ + 1]

ensureTestFile(w, projectID, filePath, layer) ==
    Bind(SelectId(w, {t \in w.db.test_files :
                         t.project_id = projectID /\ t.file_path = filePath}),
         LAMBDA w1 :
            IF w1.ret # EmptyId THEN w1
            ELSE Exec(w1, LAMBDA x : InsertTestFile(x, projectID, filePath, layer)))

\* INSERT INTO test_cases ... RETURNING id (UNIQUE(test_file_id, test_name)).
InsertTestCase(w, testFileID, testName) ==
    IF (\E t \in w.db.test_cases :
           t.test_file_id = testFileID /\ t.test_name = testName)
       \/ (w.fk /\ testFileID \notin {t.id : t \in w.db.test_files})
    THEN Fail(w)
    ELSE [w EXCEPT !.db.test_cases = @ \cup
             {[id |-> w.nextId, test_file_id |-> testFileID,
               test_name |-> testName, test_type |-> "unit"]},
          !.ret = w.nextId, !.nextId = @ + 1]

\* An ensureTestCase without its SELECT.
insertTestCase(w, testFileID, testName) ==
    Exec(Stmt(w), LAMBDA x : InsertTestCase(x, testFileID, testName))

ensureTestCase(w, testFileID, testName) ==
    Bind(SelectId(w, {t \in w.db.test_cases :
                         t.test_file_id = testFileID /\ t.test_name = testName}),
         LAMBDA w1 :
            IF w1.ret # EmptyId THEN w1
            ELSE Exec(w1, LAMBDA x : InsertTestCase(x, testFileID, testName)))

\* INSERT OR IGNORE INTO requirement_test_coverage: a pair already linked is
\* skipped (UNIQUE(requirement_id, test_case_id)).
InsertCoverage(w, requirementID, testCaseID) ==
    IF w.fk /\ (requirementID \notin ReqIds(w.db)
                \/ testCaseID \notin {t.id : t \in w.db.test_cases})
    THEN Fail(w)
    ELSE IF \E c \in w.db.coverage :
               c.requirement_id = requirementID /\ c.test_case_id = testCaseID
    THEN w
    ELSE [w EXCEPT !.db.coverage = @ \cup
             {[id |-> w.nextId, requirement_id |-> requirementID,
               test_case_id |-> testCaseID, coverage_type |-> "requirement"]},
          !.nextId = @ + 1]

RECURSIVE importTestFuncs(_, _, _, _, _)
\* for _, testFunc := range testFile.Functions
importTestFuncs(w, requirementID, testFileID, funcs, j) ==
    IF j > Len(funcs) THEN w
    ELSE Run(Run(ensureTestCase(w, testFileID, funcs[j]),
                 LAMBDA y : Exec(y, LAMBDA x : InsertCoverage(x, requirementID, y.ret))),
             LAMBDA y : importTestFuncs(y, requirementID, testFileID, funcs, j + 1))

RECURSIVE importTestFiles(_, _, _, _, _, _)
importTestFiles(w, projectID, requirementID, layer, testFiles, i) ==
    IF i > Len(testFiles) THEN w
    ELSE Run(Run(ensureTestFile(w, projectID, testFiles[i].file, layer),
                 LAMBDA y : importTestFuncs(y, requirementID, y.ret,
                                            testFiles[i].functions, 1)),
             LAMBDA y : importTestFiles(y, projectID, requirementID, layer,
                                        testFiles, i + 1))

importTestCoverage(w, projectID, requirementID, tests) ==
    Run(importTestFiles(w, projectID, requirementID, "backend", tests.backend, 1),
        LAMBDA y : importTestFiles(y, projectID, requirementID, "frontend",
                                   tests.frontend, 1))

\* INSERT OR IGNORE INTO api_endpoints (UNIQUE(project_id, method, path)).
importAPIEndpoint(w, projectID, endpoint) ==
    Exec(w, LAMBDA x :
        IF x.fk /\ projectID \notin {p.id : p \in x.db.projects} THEN Fail(x)
        ELSE IF \E e \in x.db.endpoints :
                   e.project_id = projectID /\ e.method = endpoint.method
                   /\ e.path = endpoint.path
        THEN x
        ELSE [x EXCEPT !.db.endpoints = @ \cup
                 {[id |-> x.nextId, project_id |-> projectID,
                   method |-> endpoint.method, path |-> endpoint.path,
                   handler_file |-> endpoint.handler,
                   handler_function |-> endpoint.handler]},
              !.nextId = @ + 1])

RECURSIVE importAPIEndpoints(_, _, _, _)
\* for _, endpoint := range rtmData.APIEndpoints
importAPIEndpoints(w, projectID, endpoints, i) ==
    IF i > Len(endpoints) THEN w
    ELSE Run(importAPIEndpoint(w, projectID, endpoints[i]),
             LAMBDA y : importAPIEndpoints(y, projectID, endpoints, i + 1))

\* The column values an INSERT or UPDATE of a requirement takes from the node.
ReqRow(id, projectID, componentID, parentID, req) ==
    [id |-> id, project_id |-> projectID, component_id |-> componentID,
     parent |-> parentID, requirement_key |-> req.id,
     requirement_type |-> req.type, title |-> req.title,
     description |-> req.description, category |-> req.category,
     priority |-> req.priority, status |-> req.status,
     acceptance_criteria |-> MarshalStringSliceJSON(req.acceptance_criteria)]

\* The foreign keys of a requirements row, when the connection enforces them.
ReqForeignKeysOK(d, row) ==
    /\ row.project_id \in {p.id : p \in d.projects}
    /\ row.component_id \in {c.id : c \in d.components}
    /\ row.parent = NULL \/ row.parent \in ReqIds(d) \cup {row.id}

\* The INSERT on a table without the UNIQUE(project_id, requirement_key)
\* constraint.
InsertRequirementAnyKey(w, row) ==
    IF (\E r \in w.db.requirements : r.id = row.id)
       \/ (w.fk /\ ~ReqForeignKeysOK(w.db, row))
    THEN Fail(w)
    ELSE [w EXCEPT !.db.requirements = @ \cup {row}, !.ret = row.id]

\* INSERT INTO requirements ... RETURNING id (UNIQUE(project_id, requirement_key)).
InsertRequirement(w, row) ==
    IF (\E r \in w.db.requirements :
           r.id = row.id
           \/ (r.project_id = row.project_id /\ r.requirement_key = row.requirement_key))
       \/ (w.fk /\ ~ReqForeignKeysOK(w.db, row))
    THEN Fail(w)
    ELSE [w EXCEPT !.db.requirements = @ \cup {row}, !.ret = row.id]

\* INSERT with an identifier from the column default hex(randomblob(16)).
InsertImportedRequirement(w, projectID, componentID, parentID, req) ==
    Exec(w, LAMBDA x :
        InsertRequirement([x EXCEPT !.nextId = @ + 1],
                          ReqRow(x.nextId, projectID, componentID, parentID, req)))

UpdateKeepsStoredFields(w, existingID, componentID, parentID, req) ==
    Exec(w, LAMBDA x : [x EXCEPT !.ret = existingID])

\* UPDATE requirements SET component_id, parent_requirement_id, requirement_type,
\* title, ... WHERE id = existingID.
UpdateImportedRequirement(w, existingID, componentID, parentID, req) ==
    Exec(w, LAMBDA x :
        LET old == CHOOSE r \in x.db.requirements : r.id = existingID
            new == ReqRow(existingID, old.project_id, componentID, parentID,
                          [req EXCEPT !.id = old.requirement_key])
        IN IF x.fk /\ ~ReqForeignKeysOK(x.db, new) THEN Fail(x)
           ELSE [x EXCEPT !.db.requirements = (@ \ {old}) \cup {new},
                          !.ret = existingID])

\* The insert-or-update of importRequirement; ret is the node's identifier.
UpsertRequirement(w, projectID, componentID, parentID, req, overwrite) ==
    IF overwrite
    THEN InsertImportedRequirement(w, projectID, componentID, parentID, req)
    ELSE Bind(SelectId(w, {r \in w.db.requirements :
                              r.project_id = projectID /\ r.requirement_key = req.id}),
              LAMBDA w1 :
                 IF w1.ret = EmptyId
                 THEN InsertImportedRequirement(w1, projectID, componentID, parentID, req)
                 ELSE Run(UpdateImportedRequirement(w1, w1.ret, componentID, parentID, req),
                          LAMBDA y : cleanupRequirementData(y, y.ret)))

RECURSIVE importRequirement(_, _, _, _, _, _)
RECURSIVE importChildren(_, _, _, _, _, _, _)

importChildrenAsRoots(w, projectID, componentID, children, parentID, overwrite, i) ==
    IF i > Len(children) THEN w
    ELSE Run(importRequirement(w, projectID, componentID, children[i], EmptyId, overwrite),
             LAMBDA y : importChildren(y, projectID, componentID, children, parentID,
                                       overwrite, i + 1))

\* for _, child := range req.Children
importChildren(w, projectID, componentID, children, parentID, overwrite, i) ==
    IF i > Len(children) THEN w
    ELSE Run(importRequirement(w, projectID, componentID, children[i], parentID, overwrite),
             LAMBDA y : importChildren(y, projectID, componentID, children, parentID,
                                       overwrite, i + 1))

importRequirement(w, projectID, componentID, req, parentID, overwrite) ==
    Run(UpsertRequirement(w, projectID, componentID,
                          IF parentID = EmptyId THEN NULL ELSE parentID, req, overwrite),
        LAMBDA wNode :
            Run(Run(IF req.implementation.nil THEN wNode
                    ELSE importImplementation(wNode, wNode.ret, req.implementation),
                    LAMBDA y : IF req.tests.nil THEN y
                               ELSE importTestCoverage(y, projectID, wNode.ret, req.tests)),
                LAMBDA y : importChildren(y, projectID, componentID, req.children,
                                          wNode.ret, overwrite, 1)))

RECURSIVE importRequirements(_, _, _, _, _)
\* for _, req := range rtmData.Requirements
importRequirements(w, projectID, reqs, overwrite, i) ==
    IF i > Len(reqs) THEN w
    ELSE Run(importRequirement(w, projectID, ComponentLookup(w.cm, reqs[i].component_id),
                               reqs[i], EmptyId, overwrite),
             LAMBDA y : importRequirements(y, projectID, reqs, overwrite, i + 1))

\* SELECT id FROM projects WHERE project_key = ? ("failed to get project ID").
SelectProjectId(w, projectKey) ==
    Exec(w, LAMBDA x :
        LET found == {p \in x.db.projects : p.project_key = projectKey}
        IN IF found = {} THEN Fail(x)
           ELSE [x EXCEPT !.ret = (CHOOSE p \in found : TRUE).id])

\* Importer.importRTMData up to its return: the transaction's final working
\* state, with err set when an error was returned.
importRTMData(d, nid, rtmData, overwrite, fk, failAt) ==
    Run(Run(Run(Exec(Begin(d, nid, fk, failAt),
                     LAMBDA x : importProject(x, rtmData.project)),
                LAMBDA y : SelectProjectId(y, rtmData.project.id)),
            LAMBDA wSel :
                Run(Run(Run(IF overwrite THEN cleanupProjectData(wSel, wSel.ret) ELSE wSel,
                            LAMBDA y : importComponents(y, wSel.ret, rtmData.components, 1)),
                        LAMBDA y : importRequirements(y, wSel.ret, rtmData.requirements,
                                                      overwrite, 1)),
                    LAMBDA y : importAPIEndpoints(y, wSel.ret, rtmData.api_endpoints, 1))),
        LAMBDA y : Exec(y, LAMBDA x : x))

\* -------------------------------------------------------------- documents
\* The parsed documents (models.RTMData) the imports draw from.

NoImpl == [nil |-> TRUE, backend |-> <<>>, frontend |-> <<>>, database |-> <<>>]
NoTests == [nil |-> TRUE, backend |-> <<>>, frontend |-> <<>>]

Node(key, component, type, title, category, impl, tests, children) ==
    [id |-> key, component_id |-> component, type |-> type, title |-> title,
     description |-> "", category |-> category, priority |-> "high",
     status |-> "in_progress", acceptance_criteria |-> <<"works">>,
     implementation |-> impl, tests |-> tests, children |-> children]

Api == [id |-> "api", name |-> "API", type |-> "api_server", technology |-> "Go",
        description |-> ""]
Web == [id |-> "web", name |-> "Web", type |-> "frontend", technology |-> "React",
        description |-> ""]

P1 == [id |-> "p1", name |-> "Project One", description |-> "", repository |-> "",
       version |-> "1"]

TechSpec1 ==
    Node(TSKey(USKey(ScopeKey(1), 1), 1), "", "TECH_SPEC", "Hash passwords", "security",
         [nil |-> FALSE, backend |-> <<[path |-> "hash.go", functions |-> <<"Hash">>]>>,
          frontend |-> <<>>, database |-> <<>>],
         [nil |-> FALSE, backend |-> <<[file |-> "auth_test.go",
                                        functions |-> <<"TestLogin", "TestHash">>]>>,
          frontend |-> <<>>],
         <<>>)

UserStory1 ==
    Node(USKey(ScopeKey(1), 1), "", "USER_STORY", "Log in", "backend_api",
         NoImpl, NoTests, <<TechSpec1>>)

Scope1 ==
    Node(ScopeKey(1), "api", "SCOPE", "Authentication", "backend_api",
         [nil |-> FALSE, backend |-> <<[path |-> "auth.go", functions |-> <<"Login">>]>>,
          frontend |-> <<>>, database |-> <<>>],
         [nil |-> FALSE, backend |-> <<[file |-> "auth_test.go",
                                        functions |-> <<"TestLogin">>]>>,
          frontend |-> <<>>],
         <<UserStory1>>)

\* Scope SCOPE-1 alone, retitled, with no implementation and no tests.
Scope1Bare ==
    Node(ScopeKey(1), "api", "SCOPE", "Authentication v2", "backend_api",
         NoImpl, NoTests, <<>>)

Scope2 ==
    Node(ScopeKey(2), "web", "scope", "Dashboard", "frontend_ui",
         [nil |-> FALSE, backend |-> <<>>,
          frontend |-> <<[path |-> "dash.tsx", functions |-> <<>>]>>, database |-> <<>>],
         [nil |-> FALSE, backend |-> <<>>,
          frontend |-> <<[file |-> "dash.test.tsx", functions |-> <<"renders">>]>>],
         <<>>)

Scope3 == Node(ScopeKey(3), "api", "scope", "Reports", "backend_api", NoImpl, NoTests, <<>>)

\* A root node naming the component "db", which no document declares.
Scope4NoComponent ==
    Node(ScopeKey(4), "db", "scope", "Storage", "database", NoImpl, NoTests, <<>>)

Docs ==
    << [project |-> P1, components |-> <<Api>>, requirements |-> <<Scope1>>,
        api_endpoints |-> <<[method |-> "GET", path |-> "/login", handler |-> "auth.go",
                             description |-> ""]>>],
       [project |-> P1, components |-> <<Api, Web>>, requirements |-> <<Scope2>>,
        api_endpoints |-> <<>>],
       [project |-> P1, components |-> <<Api>>, requirements |-> <<Scope1Bare>>,
        api_endpoints |-> <<>>],
       [project |-> P1, components |-> <<Api>>,
        requirements |-> <<Scope3, Scope4NoComponent>>, api_endpoints |-> <<>>] >>

DocIds == DOMAIN Docs

RECURSIVE NodeKeys(_)
RECURSIVE NodeKeysOfSeq(_, _)
\* The keys occurring anywhere in a node's subtree.
NodeKeys(node) == {node.id} \cup NodeKeysOfSeq(node.children, 1)
NodeKeysOfSeq(nodes, i) ==
    IF i > Len(nodes) THEN {} ELSE NodeKeys(nodes[i]) \cup NodeKeysOfSeq(nodes, i + 1)

DocKeys(doc) == NodeKeysOfSeq(doc.requirements, 1)

\* ------------------------------------------------------------------ export

RECURSIVE SortByKey(_)
\* ORDER BY requirement_key.
SortByKey(rows) ==
    IF rows = {} THEN <<>>
    ELSE Bind(CHOOSE r \in rows :
                  \A o \in rows \ {r} : StrLess(r.requirement_key, o.requirement_key),
              LAMBDA m : Bind(rows \ {m}, LAMBDA rest : <<m>> \o SortByKey(rest)))

RECURSIVE SortById(_)
\* Rows in the order they were inserted (a SELECT without ORDER BY).
SortById(rows) ==
    IF rows = {} THEN <<>>
    ELSE Bind(CHOOSE r \in rows : \A o \in rows : r.id <= o.id,
              LAMBDA m : Bind(rows \ {m}, LAMBDA rest : <<m>> \o SortById(rest)))

\* The order of the component names in use (ORDER BY c.name).
NameRank(name) == IF name = "API" THEN 1 ELSE IF name = "Web" THEN 2 ELSE 3

RECURSIVE SortByName(_)
SortByName(rows) ==
    IF rows = {} THEN <<>>
    ELSE Bind(CHOOSE r \in rows :
                  \A o \in rows : <<NameRank(r.name), r.id>> = <<NameRank(o.name), o.id>>
                                  \/ NameRank(r.name) < NameRank(o.name)
                                  \/ (NameRank(r.name) = NameRank(o.name) /\ r.id < o.id),
              LAMBDA m : Bind(rows \ {m}, LAMBDA rest : <<m>> \o SortByName(rest)))

\* The elements of a sequence satisfying Test, each mapped by F.
FilterMap(seq, Test(_), F(_)) ==
    Bind(SelectSeq(seq, Test), LAMBDA sel : [k \in 1..Len(sel) |-> F(sel[k])])

GetRequirementsByProject(d, projectID) ==
    SortByKey({r \in d.requirements : r.project_id = projectID})

getComponentsSummary(d, projectKey) ==
    SortByName({c \in d.components :
                   \E p \in d.projects : p.id = c.project_id /\ p.project_key = projectKey})

\* The identifier column as the text the export writes into a document.
IdText(id) == ToString(id)

\* Rows whose functions column is "[]" contribute no file to the result.
ImplFiles(rows, layer) ==
    FilterMap(SortById(rows),
              LAMBDA r : r.layer = layer /\ UnmarshalStringSliceJSON(r.functions) # <<>>,
              LAMBDA r : [path |-> r.file_path,
                          functions |-> UnmarshalStringSliceJSON(r.functions)])

getImplementationForRequirement(d, requirementID) ==
    LET rows == {i \in d.implementations : i.requirement_id = requirementID}
    IN IF rows = {} THEN NoImpl
       ELSE [nil |-> FALSE, backend |-> ImplFiles(rows, "backend"),
             frontend |-> ImplFiles(rows, "frontend"),
             database |-> ImplFiles(rows, "database")]

\* The test cases linked to a requirement, grouped by file; every stored test
\* file has test_type "unit".
getTestCoverageForRequirement(d, projectID, requirementID) ==
    LET cases == {t \in d.test_cases :
                     /\ \E c \in d.coverage :
                           c.requirement_id = requirementID /\ c.test_case_id = t.id
                     /\ \E f \in d.test_files : f.id = t.test_file_id}
        files == {f \in d.test_files : \E t \in cases : t.test_file_id = f.id}
    IN IF cases = {} THEN [nil |-> TRUE, unit_tests |-> <<>>]
       ELSE [nil |-> FALSE,
             unit_tests |->
                 FilterMap(SortById(files), LAMBDA f : TRUE,
                           LAMBDA f : [file |-> f.file_path,
                                       functions |->
                                           FilterMap(SortById(cases),
                                                     LAMBDA t : t.test_file_id = f.id,
                                                     LAMBDA t : t.test_name)])]

IsScope(req) == req.requirement_type \in {"scope", "SCOPE"}
IsUserStory(req) == req.requirement_type \in {"user_story", "USER_STORY"}
IsTechSpec(req) == req.requirement_type \in {"tech_spec", "TECH_SPEC"}

\* Third pass: a tech spec, with its implementation and test coverage.
ExportTechSpec(d, projectID, req) ==
    [id |-> req.requirement_key, name |-> req.title, description |-> req.description,
     priority |-> req.priority, status |-> req.status,
     acceptance_criteria |-> UnmarshalStringSliceJSON(req.acceptance_criteria),
     implementation |-> getImplementationForRequirement(d, req.id),
     test_coverage |-> getTestCoverageForRequirement(d, projectID, req.id)]

\* Second pass: the user story as created, TechSpecs: []models.TechSpec{}.
ExportUserStory(req) ==
    [id |-> req.requirement_key, name |-> req.title, description |-> req.description,
     priority |-> req.priority, status |-> req.status, tech_specs |-> <<>>]

\* userStoryMap after the third pass: the tech specs are appended to the
\* *models.UserStory held by this map.
userStoryMap(d, projectID, requirements) ==
    [sid \in {requirements[k].id : k \in
                 {j \in 1..Len(requirements) :
                     /\ IsUserStory(requirements[j])
                     /\ \E i \in 1..Len(requirements) :
                           /\ IsScope(requirements[i])
                           /\ requirements[i].id = requirements[j].parent}}
       |-> [ExportUserStory(requirements[CHOOSE k \in 1..Len(requirements) :
                                             requirements[k].id = sid])
               EXCEPT !.tech_specs =
                   FilterMap(requirements,
                             LAMBDA r : IsTechSpec(r) /\ r.parent = sid,
                             LAMBDA r : ExportTechSpec(d, projectID, r))]]

\* scopeMap after the second pass: parentScope.UserStories holds the value
\* *userStory copied when it was appended, so the tech specs later appended
\* through userStoryMap do not show in it.
ExportScope(requirements, req) ==
    [id |-> req.requirement_key, component_id |-> IdText(req.component_id),
     name |-> req.title, description |-> req.description,
     priority |-> req.priority, status |-> req.status,
     user_stories |-> FilterMap(requirements,
                                LAMBDA r : IsUserStory(r) /\ r.parent = req.id,
                                ExportUserStory)]

\* The RTMData document getExportDataAsRTM builds from the project row, the
\* requirement list and the component list it has read; stories is the
\* handler's userStoryMap.
BuildExport(project, requirements, components, stories) ==
    [project |-> [id |-> project.project_key, name |-> project.name,
                  description |-> project.description,
                  repository |-> project.repository_url,
                  version |-> project.version],
     components |-> FilterMap(components,
                              LAMBDA c : TRUE,
                              LAMBDA c : [id |-> c.component_key, name |-> c.name,
                                          type |-> c.component_type,
                                          technology |-> c.technology,
                                          description |-> c.description]),
     scopes |-> FilterMap(requirements, IsScope,
                          LAMBDA r : ExportScope(requirements, r)),
     stories |-> stories]

\* Server.getExportDataAsRTM for an existing project.
getExportDataAsRTM(d, projectKey) ==
    LET project == CHOOSE p \in d.projects : p.project_key = projectKey
    IN Bind(GetRequirementsByProject(d, project.id), LAMBDA requirements :
        BuildExport(project, requirements, getComponentsSummary(d, projectKey),
                    userStoryMap(d, project.id, requirements)))

\* An export in progress: the handler's position between its queries, what
\* the queries returned so far, and the stores committed since it started.
IdleReader ==
    [pc |-> "idle", project |-> NULL, requirements |-> <<>>, components |-> <<>>,
     doc |-> NULL, views |-> {}]

\* No create request in progress.
NoRequests == <<>>

\* A commit while an export is between two of its queries.
Committed(rd, d) ==
    IF rd.pc \in {"requirements", "components", "techspecs"}
    THEN [rd EXCEPT !.views = @ \cup {d}]
    ELSE rd

\* The nested shape read back as the tree of requirement nodes the importer
\* walks: a Scope with its UserStories as children, each with its TechSpecs
\* as children.
NormalizeTechSpec(ts) ==
    [id |-> ts.id, component_id |-> "", type |-> "TECH_SPEC", title |-> ts.name,
     description |-> ts.description, category |-> "", priority |-> ts.priority,
     status |-> ts.status, acceptance_criteria |-> ts.acceptance_criteria,
     implementation |-> ts.implementation,
     tests |-> [nil |-> ts.test_coverage.nil, backend |-> ts.test_coverage.unit_tests,
                frontend |-> <<>>],
     children |-> <<>>]

NormalizeUserStory(us) ==
    [id |-> us.id, component_id |-> "", type |-> "USER_STORY", title |-> us.name,
     description |-> us.description, category |-> "", priority |-> us.priority,
     status |-> us.status, acceptance_criteria |-> <<>>,
     implementation |-> NoImpl, tests |-> NoTests,
     children |-> FilterMap(us.tech_specs, LAMBDA t : TRUE, NormalizeTechSpec)]

NormalizeScope(scope) ==
    [id |-> scope.id, component_id |-> scope.component_id, type |-> "SCOPE",
     title |-> scope.name, description |-> scope.description, category |-> "",
     priority |-> scope.priority, status |-> scope.status,
     acceptance_criteria |-> <<>>, implementation |-> NoImpl, tests |-> NoTests,
     children |-> FilterMap(scope.user_stories, LAMBDA u : TRUE, NormalizeUserStory)]

NormalizeExport(exported) ==
    [project |-> exported.project, components |-> exported.components,
     requirements |-> FilterMap(exported.scopes, LAMBDA x : TRUE, NormalizeScope),
     api_endpoints |-> <<>>]

\* -------------------------------------------------------- requirement API
\* The functions of internal/database/requirements.go.  Each statement goes
\* through db.Exec / db.QueryRow on the pool, outside any transaction, so each
\* one is committed by itself.  A result is the tables after the call, the
\* next fresh identifier and the error flag.

\* ORDER BY requirement_key DESC LIMIT 1 over a non-empty set of keys.
MaxKey(keys) ==
    CHOOSE k \in keys : \A o \in keys \ {k} : StrLess(o, k)

RECURSIVE TrailingDigits(_)
\* The digits at the end of a key (the loop from len(parts)-1 downwards).
TrailingDigits(s) ==
    IF s = <<>> \/ ~IsDigit(s[Len(s)]) THEN <<>>
    ELSE TrailingDigits(SubSeq(s, 1, Len(s) - 1)) \o <<s[Len(s)]>>

\* fmt.Sscanf(lastKey, "SCOPE-%d", &lastNum): lastNum stays 0 when the input
\* does not match.
ScanScopeNumber(lastKey) ==
    IF HasPrefix(lastKey, ScopePrefix)
    THEN Atoi(SubSeq(lastKey, Len(ScopePrefix) + 1, Len(lastKey)), 0)
    ELSE 0

\* The rows the query of GenerateNextRequirementKey selects from.
KeyQueryRows(d, projectID, componentID, lowerType, parentID) ==
    IF lowerType = "scope"
    THEN {r \in d.requirements :
             r.project_id = projectID /\ r.component_id = componentID
             /\ r.requirement_type = "scope"}
    ELSE {r \in d.requirements :
             r.project_id = projectID /\ r.parent = parentID
             /\ r.requirement_type = lowerType}

\* prefix + (lastNum + 1), or prefix + "1" when the query returns no row.
NextKey(prefix, rows, requirementType) ==
    IF rows = {} THEN prefix \o <<"1">>
    ELSE Bind(MaxKey({r.requirement_key : r \in rows}), LAMBDA lastKey :
             prefix \o Itoa(1 + (IF requirementType = "scope"
                                 THEN ScanScopeNumber(lastKey)
                                 ELSE Atoi(TrailingDigits(lastKey), 0))))

GenerateNextRequirementKey(d, projectID, componentID, requirementType, parentID) ==
    IF ToLower(requirementType) = "scope"
    THEN [err |-> FALSE,
          key |-> NextKey(ScopePrefix,
                          KeyQueryRows(d, projectID, componentID, "scope", parentID),
                          requirementType)]
    ELSE IF ToLower(requirementType) \in {"user_story", "tech_spec"}
    THEN IF parentID = NULL \/ parentID \notin ReqIds(d)
         THEN [err |-> TRUE, key |-> <<>>]
         ELSE [err |-> FALSE,
               key |-> NextKey((CHOOSE r \in d.requirements : r.id = parentID).requirement_key
                                   \o (IF ToLower(requirementType) = "user_story"
                                       THEN USInfix ELSE TSInfix),
                               KeyQueryRows(d, projectID, componentID,
                                            ToLower(requirementType), parentID),
                               requirementType)]
    ELSE [err |-> TRUE, key |-> <<>>]

\* A logRequirementChange that returns without writing its entry.
skipRequirementChange(d, nid, requirementID, changeType, oldReq, newReq, fk, auditFails) ==
    [db |-> d, nextId |-> nid, err |-> FALSE, audit |-> FALSE]

\* INSERT INTO requirement_changes.  The statement fails on a storage error
\* (auditFails) or, with foreign keys enforced, when the requirement row does
\* not exist.  oldReq / newReq are <<>> for nil, <<row>> otherwise.
logRequirementChange(d, nid, requirementID, changeType, oldReq, newReq, fk, auditFails) ==
    IF auditFails \/ (fk /\ requirementID \notin ReqIds(d))
    THEN [db |-> d, nextId |-> nid, err |-> TRUE, audit |-> TRUE]
    ELSE [db |-> [d EXCEPT !.changes = @ \cup
                     {[id |-> nid, requirement_id |-> requirementID,
                       change_type |-> changeType,
                       old_values |-> oldReq, new_values |-> newReq]}],
          nextId |-> nid + 1, err |-> FALSE, audit |-> FALSE]

\* An error returned before the audit write.
ApiError(d, nid) == [db |-> d, nextId |-> nid, err |-> TRUE, audit |-> FALSE]

\* DB.CreateRequirement with req.ID empty: INSERT, then the audit entry.
CreateRequirement(d, nid, req, fk, auditFails) ==
    Bind([req EXCEPT !.id = nid], LAMBDA row :
        IF (\E r \in d.requirements :
               r.project_id = row.project_id /\ r.requirement_key = row.requirement_key)
           \/ (fk /\ ~ReqForeignKeysOK(d, row))
        THEN ApiError(d, nid)
        ELSE logRequirementChange([d EXCEPT !.requirements = @ \cup {row}], nid + 1,
                                  row.id, "created", <<>>, <<row>>, fk, auditFails))

\* DB.UpdateRequirement: title, description, category, priority, status and
\* acceptance criteria of the row req.id.
UpdateRequirement(d, nid, req, fk, auditFails) ==
    IF req.id \notin ReqIds(d) THEN ApiError(d, nid)
    ELSE Bind(CHOOSE r \in d.requirements : r.id = req.id, LAMBDA oldReq :
            Bind([oldReq EXCEPT !.title = req.title, !.description = req.description,
                                !.category = req.category, !.priority = req.priority,
                                !.status = req.status,
                                !.acceptance_criteria = req.acceptance_criteria],
                 LAMBDA new :
                    logRequirementChange(
                        [d EXCEPT !.requirements = (@ \ {oldReq}) \cup {new}], nid,
                        req.id, "updated", <<oldReq>>, <<req>>, fk, auditFails)))

\* DB.UpdateRequirementDescription.
UpdateRequirementDescription(d, nid, requirementID, description, fk, auditFails) ==
    IF requirementID \notin ReqIds(d) THEN ApiError(d, nid)
    ELSE Bind(CHOOSE r \in d.requirements : r.id = requirementID, LAMBDA oldReq :
            Bind([oldReq EXCEPT !.description = description], LAMBDA newReq :
                logRequirementChange(
                    [d EXCEPT !.requirements = (@ \ {oldReq}) \cup {newReq}], nid,
                    requirementID, "updated", <<oldReq>>, <<newReq>>, fk, auditFails)))

\* DB.DeleteRequirement: DELETE FROM requirements WHERE id = ?, then the audit
\* entry for the row that is no longer there.
DeleteRequirement(d, nid, requirementID, fk, auditFails) ==
    IF requirementID \notin ReqIds(d) THEN ApiError(d, nid)
    ELSE Bind(CHOOSE r \in d.requirements : r.id = requirementID, LAMBDA req :
            logRequirementChange(DeleteRequirementRows(d, {requirementID}, fk), nid,
                                 requirementID, "deleted", <<req>>, <<>>, fk, auditFails))

\* The request body of createRequirementHandler (no requirement_key), with the
\* defaults the handler fills in.
NewRequirement(projectID, componentID, requirementType, parentID) ==
    [id |-> EmptyId, project_id |-> projectID, component_id |-> componentID,
     parent |-> parentID, requirement_key |-> <<>>,
     requirement_type |-> requirementType, title |-> "New", description |-> "",
     category |-> "backend_api", priority |-> "medium", status |-> "not_started",
     acceptance_criteria |-> MarshalStringSliceJSON(<<>>)]

\* Server.createRequirementHandler: a key is generated when the body has none.
createRequirementHandler(d, nid, body, fk, auditFails) ==
    IF body.requirement_key # <<>>
    THEN CreateRequirement(d, nid, body, fk, auditFails)
    ELSE Bind(GenerateNextRequirementKey(d, body.project_id, body.component_id,
                                         body.requirement_type, body.parent),
              LAMBDA g :
                 IF g.err THEN ApiError(d, nid)
                 ELSE CreateRequirement(d, nid,
                                        [body EXCEPT !.requirement_key = g.key],
                                        fk, auditFails))

\* ---------------------------------------------------------------- actions

NoOp == [op |-> "none", doc |-> 0, overwrite |-> FALSE, fk |-> FALSE, err |-> FALSE,
         dirty |-> FALSE, others |-> FALSE, existing |-> FALSE, attached |-> FALSE, repeat |-> FALSE,
         audit |-> FALSE,
         target |-> NULL]

\* Some stored requirement whose key is not in the document has both an
\* implementation record and a coverage link.
HasOtherNodes(d, doc) ==
    \E r \in d.requirements :
        /\ r.requirement_key \notin DocKeys(doc)
        /\ \E i \in d.implementations : i.requirement_id = r.id
        /\ \E c \in d.coverage : c.requirement_id = r.id

\* Some stored requirement with a key of the document has both an
\* implementation record and a coverage link.
HasAttachedDocNodes(d, doc) ==
    \E r \in d.requirements :
        /\ r.requirement_key \in DocKeys(doc)
        /\ \E i \in d.implementations : i.requirement_id = r.id
        /\ \E c \in d.coverage : c.requirement_id = r.id

\* Some stored requirement has a key of the document.
HasDocNodes(d, doc) ==
    \E r \in d.requirements : r.requirement_key \in DocKeys(doc)

\* Importer.importRTMData: the transaction commits, or is rolled back when any
\* step returned an error.
Reconcile(op, i, doc, overwrite, fk, failAt) ==
    /\ steps > 0
    /\ \E res \in {importRTMData(db, nextId, doc, overwrite, fk, failAt)} :
          /\ db' = IF res.err THEN Rollback(db, res.db) ELSE res.db
          /\ nextId' = IF res.err THEN nextId ELSE res.nextId
          /\ last' = [op |-> op, doc |-> i, overwrite |-> overwrite, fk |-> fk,
                      err |-> res.err, dirty |-> (res.db # db),
                      others |-> HasOtherNodes(db, doc),
                      existing |-> HasDocNodes(db, doc),
                      attached |-> HasAttachedDocNodes(db, doc),
                      repeat |-> (op = "import" /\ last.op = "import" /\ ~last.err
                                  /\ last.doc = i),
                      audit |-> FALSE,
                      target |-> NULL]
    /\ steps' = steps - 1
    /\ reader' = Committed(reader, db')
    /\ UNCHANGED requests
    /\ UNCHANGED hist

ImportWith(i, overwrite, fk, failAt) ==
    Reconcile("import", i, Docs[i], overwrite, fk, failAt)

Import ==
    \E i \in DocIds, overwrite \in BOOLEAN, fk \in BOOLEAN :
        ImportWith(i, overwrite, fk, 0)

\* The same import with a storage error at one of its statements.
ImportFault ==
    \E i \in DocIds, overwrite \in BOOLEAN, fk \in BOOLEAN :
        \E failAt \in 1..importRTMData(db, nextId, Docs[i], overwrite, fk, 0).n :
            ImportWith(i, overwrite, fk, failAt)

Init ==
    /\ db = EmptyDB
    /\ nextId = 1
    /\ last = NoOp
    /\ steps = MaxSteps
    /\ hist = <<>>
    /\ reader = IdleReader
    /\ requests = NoRequests

\* Export of a stored project (getExportDataAsRTM), then import of the exported
\* document in Update mode.
ExportReimport ==
    \E p \in db.projects, fk \in BOOLEAN :
        Reconcile("reimport", 0, NormalizeExport(getExportDataAsRTM(db, p.project_key)),
                  FALSE, fk, 0)

Next == Import \/ ExportReimport

Spec == Init /\ [][Next]_vars

InitFault ==
    /\ db = EmptyDB
    /\ nextId = 1
    /\ last = NoOp
    /\ steps = MaxFaultSteps
    /\ hist = <<>>
    /\ reader = IdleReader
    /\ requests = NoRequests

NextFault == Import \/ ImportFault

SpecFault == InitFault /\ [][NextFault]_vars

\* A call of the requirement API: what it wrote stays written, whether or not
\* it returned an error.
ApiStep(op, target, fk, res) ==
    /\ steps > 0
    /\ db' = res.db
    /\ nextId' = res.nextId
    /\ last' = [op |-> op, doc |-> 0, overwrite |-> FALSE, fk |-> fk, err |-> res.err,
                dirty |-> (res.db # db), others |-> FALSE, existing |-> FALSE,
                attached |-> FALSE, repeat |-> FALSE,
                audit |-> res.audit, target |-> target]
    /\ steps' = steps - 1
    /\ reader' = Committed(reader, db')
    /\ UNCHANGED requests

RequirementTypes == {"scope", "SCOPE", "user_story", "tech_spec"}

\* The parents a client picks for a new node of the given type.
ParentChoices(d, requirementType) ==
    IF ToLower(requirementType) = "scope" THEN {NULL}
    ELSE IF requirementType = "user_story"
    THEN {r.id : r \in {x \in d.requirements : IsScope(x)}}
    ELSE {r.id : r \in {x \in d.requirements : IsUserStory(x)}}

\* POST /api/requirements without a key.
CreateCall ==
    \E p \in db.projects, c \in db.components, t \in RequirementTypes :
        \E parent \in ParentChoices(db, t), fk \in BOOLEAN, auditFails \in BOOLEAN :
            \E res \in {createRequirementHandler(
                            db, nextId, NewRequirement(p.id, c.id, t, parent),
                            fk, auditFails)} :
                ApiStep("create", nextId, fk, res) /\ UNCHANGED hist

\* The body of an update request.
EditedRequirement(id) ==
    [id |-> id, title |-> "Edited", description |-> "edited", category |-> "security",
     priority |-> "low", status |-> "completed",
     acceptance_criteria |-> MarshalStringSliceJSON(<<"done">>)]

UpdateCall ==
    \E id \in ReqIds(db), fk \in BOOLEAN, auditFails \in BOOLEAN :
        \E res \in {UpdateRequirement(db, nextId, EditedRequirement(id), fk, auditFails)} :
            ApiStep("update", id, fk, res) /\ UNCHANGED hist

DescribeCall ==
    \E id \in ReqIds(db), fk \in BOOLEAN, auditFails \in BOOLEAN :
        \E res \in {UpdateRequirementDescription(db, nextId, id, "described",
                                                 fk, auditFails)} :
            ApiStep("describe", id, fk, res) /\ UNCHANGED hist

DeleteCall ==
    \E id \in ReqIds(db), fk \in BOOLEAN, auditFails \in BOOLEAN :
        \E res \in {DeleteRequirement(db, nextId, id, fk, auditFails)} :
            ApiStep("delete", id, fk, res) /\ UNCHANGED hist

\* The store after importing Docs[1] and then Docs[2] in Update mode.
ImportedStore ==
    Bind(importRTMData(EmptyDB, 1, Docs[1], FALSE, TRUE, 0), LAMBDA r :
        importRTMData(r.db, r.nextId, Docs[2], FALSE, TRUE, 0))

InitReq ==
    /\ db = ImportedStore.db
    /\ nextId = ImportedStore.nextId
    /\ last = NoOp
    /\ steps = MaxReqSteps
    /\ hist = <<>>
    /\ reader = IdleReader
    /\ requests = NoRequests

NextReq == CreateCall \/ UpdateCall \/ DescribeCall \/ DeleteCall

SpecReq == InitReq /\ [][NextReq]_vars

\* A document declaring the components and no requirement.
ComponentsOnly ==
    [project |-> P1, components |-> <<Api, Web>>, requirements |-> <<>>,
     api_endpoints |-> <<>>]

ComponentsStore == importRTMData(EmptyDB, 1, ComponentsOnly, FALSE, TRUE, 0)

\* The stored component with the given key.
ComponentId(d, key) == (CHOOSE c \in d.components : c.component_key = key).id

\* The body of a request for a new Scope in component "api".
NewScope == NewRequirement((CHOOSE p \in db.projects : TRUE).id,
                           ComponentId(db, "api"), "scope", NULL)

\* GenerateNextRequirementKey for type scope, then CreateRequirement with the
\* returned key; hist collects the keys returned.
CreateScope ==
    \E fk \in BOOLEAN :
        \E res \in {createRequirementHandler(db, nextId, NewScope, fk, FALSE)} :
            /\ ApiStep("create", nextId, fk, res)
            /\ hist' = Append(hist, GenerateNextRequirementKey(
                                        db, NewScope.project_id, NewScope.component_id,
                                        "scope", NULL).key)

\* A user story added under one of the scopes.
CreateStory ==
    /\ Cardinality({r \in db.requirements : IsUserStory(r)}) < MaxStories
    /\ \E parent \in ParentChoices(db, "user_story"), fk \in BOOLEAN :
          \E res \in {createRequirementHandler(
                          db, nextId,
                          NewRequirement(NewScope.project_id, NewScope.component_id,
                                         "user_story", parent),
                          fk, FALSE)} :
              ApiStep("create", nextId, fk, res) /\ UNCHANGED hist

InitKeys ==
    /\ db = ComponentsStore.db
    /\ nextId = ComponentsStore.nextId
    /\ last = NoOp
    /\ steps = MaxCreates
    /\ hist = <<>>
    /\ reader = IdleReader
    /\ requests = NoRequests

NextKeys == CreateScope \/ CreateStory

SpecKeys == InitKeys /\ [][NextKeys]_vars

\* An export request served while imports commit: every query of
\* getExportDataAsRTM is a statement of its own on the shared database, so a
\* commit can fall between any two of them.
MaxReadSteps == 2

\* GetProjectByKey.
StartExport ==
    /\ reader.pc = "idle"
    /\ \E p \in db.projects :
          reader' = [IdleReader EXCEPT !.pc = "requirements", !.project = p,
                                       !.views = {db}]
    /\ UNCHANGED <<db, nextId, last, steps, hist, requests>>

\* GetRequirementsByProject with the project id read before.
ReadRequirements ==
    /\ reader.pc = "requirements"
    /\ reader' = [reader EXCEPT
                     !.pc = "components",
                     !.requirements = GetRequirementsByProject(db, reader.project.id)]
    /\ UNCHANGED <<db, nextId, last, steps, hist, requests>>

\* getComponentsSummary with the project key.
ReadComponents ==
    /\ reader.pc = "components"
    /\ reader' = [reader EXCEPT
                     !.pc = "techspecs",
                     !.components = getComponentsSummary(db, reader.project.project_key)]
    /\ UNCHANGED <<db, nextId, last, steps, hist, requests>>

\* The three passes over the requirement list; the third queries the
\* implementation and test coverage of each tech spec.
ReadTechSpecs ==
    /\ reader.pc = "techspecs"
    /\ reader' = [reader EXCEPT
                     !.pc = "done",
                     !.doc = BuildExport(reader.project, reader.requirements,
                                         reader.components,
                                         userStoryMap(db, reader.project.id,
                                                      reader.requirements))]
    /\ UNCHANGED <<db, nextId, last, steps, hist, requests>>

ImportedOnce == importRTMData(EmptyDB, 1, Docs[1], FALSE, TRUE, 0)

InitRead ==
    /\ db = ImportedOnce.db
    /\ nextId = ImportedOnce.nextId
    /\ last = NoOp
    /\ steps = MaxReadSteps
    /\ hist = <<>>
    /\ reader = IdleReader
    /\ requests = NoRequests

NextRead ==
    Import \/ StartExport \/ ReadRequirements \/ ReadComponents \/ ReadTechSpecs

SpecRead == InitRead /\ [][NextRead]_vars

\* Documents at the edge of what the importer is given: a node of a type
\* outside scope / user_story / tech_spec, two nodes with one key, one
\* component key listed twice, a listed component with changed attributes, and
\* test functions and test files listed more than once, a scope under a scope,
\* and a key repeated inside its own subtree.
MaxEdgeSteps == 2

ApiRenamed == [id |-> "api", name |-> "Gateway", type |-> "api_server",
               technology |-> "Rust", description |-> ""]

Epic1 ==
    Node(<<"E", "P", "I", "C", "-", "1">>, "api", "epic", "Billing", "backend_api",
         NoImpl, NoTests, <<>>)

Scope3Twin ==
    Node(ScopeKey(3), "api", "scope", "Exports", "backend_api", NoImpl, NoTests, <<>>)

\* Two scopes tested by one file: the first lists a test function twice, the
\* second lists the file in both layers.
Scope5 ==
    Node(ScopeKey(5), "api", "scope", "Sessions", "backend_api", NoImpl,
         [nil |-> FALSE,
          backend |-> <<[file |-> "auth_test.go",
                         functions |-> <<"TestLogin", "TestLogin">>]>>,
          frontend |-> <<>>],
         <<>>)

Scope6 ==
    Node(ScopeKey(6), "api", "scope", "Logout", "backend_api", NoImpl,
         [nil |-> FALSE,
          backend |-> <<[file |-> "auth_test.go",
                         functions |-> <<"TestLogin", "TestLogout">>]>>,
          frontend |-> <<[file |-> "auth_test.go", functions |-> <<"TestLogin">>]>>],
         <<>>)

\* A scope nested under a scope.
Scope8 ==
    Node(ScopeKey(8), "", "scope", "Billing", "backend_api", NoImpl, NoTests, <<>>)

Scope7 ==
    Node(ScopeKey(7), "api", "scope", "Payments", "backend_api", NoImpl, NoTests,
         <<Scope8>>)

\* A scope whose key occurs again on its child.
Scope9 ==
    Node(ScopeKey(9), "api", "scope", "Audit", "backend_api", NoImpl, NoTests,
         <<Node(ScopeKey(9), "", "user_story", "Audit log", "backend_api",
                NoImpl, NoTests, <<>>)>>)

EdgeDocs ==
    << [project |-> P1, components |-> <<Api>>, requirements |-> <<Epic1>>,
        api_endpoints |-> <<>>],
       [project |-> P1, components |-> <<Api>>,
        requirements |-> <<Scope3, Scope3Twin>>, api_endpoints |-> <<>>],
       [project |-> P1, components |-> <<Api, ApiRenamed>>, requirements |-> <<>>,
        api_endpoints |-> <<>>],
       [project |-> P1, components |-> <<ApiRenamed>>, requirements |-> <<>>,
        api_endpoints |-> <<>>],
       [project |-> P1, components |-> <<Api>>, requirements |-> <<Scope5, Scope6>>,
        api_endpoints |-> <<>>],
       [project |-> P1, components |-> <<Api>>, requirements |-> <<Scope7>>,
        api_endpoints |-> <<>>],
       [project |-> P1, components |-> <<Api>>, requirements |-> <<Scope9>>,
        api_endpoints |-> <<>>] >>

AllDocs == Docs \o EdgeDocs

EpicDocId == Len(Docs) + 1
TwinDocId == Len(Docs) + 2
TwoApisDocId == Len(Docs) + 3
RenamedApiDocId == Len(Docs) + 4
SharedTestsDocId == Len(Docs) + 5
NestedScopeDocId == Len(Docs) + 6
KeyInSubtreeDocId == Len(Docs) + 7

\* The files handed to ImportRTMFile: their extension, whether the parser
\* accepts the content, and the document parsed from it.
Files ==
    {[ext |-> ".json", parses |-> TRUE, doc |-> i] : i \in EpicDocId..KeyInSubtreeDocId}
    \cup {[ext |-> ".yaml", parses |-> FALSE, doc |-> 0],
          [ext |-> ".txt", parses |-> TRUE, doc |-> 0]}

\* ImportRTMFile returning its parse or format error.
RejectFile(overwrite, fk) ==
    /\ steps > 0
    /\ last' = [NoOp EXCEPT !.op = "import", !.overwrite = overwrite, !.fk = fk,
                            !.err = TRUE]
    /\ steps' = steps - 1
    /\ UNCHANGED <<db, nextId, hist, reader, requests>>

\* Importer.ImportRTMFile: parse by extension, then importRTMData.
ImportRTMFile ==
    \E file \in Files, overwrite \in BOOLEAN, fk \in BOOLEAN :
        IF file.ext \notin {".json", ".yaml", ".yml"} \/ ~file.parses
        THEN RejectFile(overwrite, fk)
        ELSE Reconcile("import", file.doc, AllDocs[file.doc], overwrite, fk, 0)

InitEdge ==
    /\ db = EmptyDB
    /\ nextId = 1
    /\ last = NoOp
    /\ steps = MaxEdgeSteps
    /\ hist = <<>>
    /\ reader = IdleReader
    /\ requests = NoRequests

NextEdge == ImportRTMFile

SpecEdge == InitEdge /\ [][NextEdge]_vars

\* Two projects in one store: the project key given on the command line
\* replaces the document's, so one document is imported into either project.
MaxProjSteps == 2

P1Renamed == [id |-> "p1", name |-> "Project 1", description |-> "renamed",
              repository |-> "git", version |-> "2"]

\* ImportRTMFile: "if projectKey != "" { rtmData.Project.ID = projectKey }".
WithProjectKey(doc, projectKey) ==
    IF projectKey = "" THEN doc ELSE [doc EXCEPT !.project.id = projectKey]

ProjDocs ==
    << Docs[1],
       [Docs[1] EXCEPT !.project = P1Renamed],
       WithProjectKey(Docs[1], "p2"),
       WithProjectKey([Docs[1] EXCEPT !.project = P1Renamed], "p2") >>

ImportProject ==
    \E i \in DOMAIN ProjDocs, overwrite \in BOOLEAN, fk \in BOOLEAN :
        Reconcile("import", i, ProjDocs[i], overwrite, fk, 0)

\* DELETE /api/project/<key>/delete: deleteProjectHandler, deleteProject;
\* failAt is the statement at which the storage fails, 0 for never.
DeleteProject ==
    /\ steps > 0
    /\ \E p \in db.projects, fk \in BOOLEAN, failAt \in 0..7 :
          \E res \in {deleteProject(db, nextId, p.id, fk, failAt)} :
              /\ db' = IF res.err THEN Rollback(db, res.db) ELSE res.db
              /\ last' = [NoOp EXCEPT !.op = "deleteProject", !.fk = fk,
                                      !.err = res.err, !.dirty = (res.db # db),
                                      !.target = p.id]
    /\ steps' = steps - 1
    /\ reader' = Committed(reader, db')
    /\ UNCHANGED requests
    /\ UNCHANGED <<nextId, hist>>

\* POST /api/requirements for a user story, with or without a key: the
\* body's project, component and parent are stored as the client sent them.
CreateUserStory ==
    \E p \in db.projects, c \in db.components, fk \in BOOLEAN :
        \E parent \in ParentChoices(db, "user_story"),
           key \in {<<>>, USKey(ScopeKey(1), 2)} :
            \E res \in {createRequirementHandler(
                            db, nextId,
                            [NewRequirement(p.id, c.id, "user_story", parent)
                                EXCEPT !.requirement_key = key],
                            fk, FALSE)} :
                ApiStep("create", nextId, fk, res) /\ UNCHANGED hist

TwoProjects ==
    Bind(importRTMData(EmptyDB, 1, ProjDocs[1], FALSE, TRUE, 0), LAMBDA r :
        importRTMData(r.db, r.nextId, ProjDocs[3], FALSE, TRUE, 0))

InitProj ==
    /\ db = TwoProjects.db
    /\ nextId = TwoProjects.nextId
    /\ last = NoOp
    /\ steps = MaxProjSteps
    /\ hist = <<>>
    /\ reader = IdleReader
    /\ requests = NoRequests

NextProj == ImportProject \/ DeleteProject \/ CreateUserStory

SpecProj == InitProj /\ [][NextProj]_vars

\* User stories and tech specs added through the API under imported parents:
\* SCOPE-1 has the stories SCOPE-1-US-2 and SCOPE-1-US-10, SCOPE-3 has none.
MaxChildSteps == 3

Story(n) ==
    Node(USKey(ScopeKey(1), n), "", "user_story", "Story", "backend_api",
         NoImpl, NoTests, <<>>)

StoriesDoc ==
    [project |-> P1, components |-> <<Api>>,
     requirements |-> <<Node(ScopeKey(1), "api", "scope", "Authentication",
                             "backend_api", NoImpl, NoTests,
                             <<Story(2), Story(10)>>),
                        Scope3>>,
     api_endpoints |-> <<>>]

StoriesStore == importRTMData(EmptyDB, 1, StoriesDoc, FALSE, TRUE, 0)

\* POST /api/requirements without a key for a user story or a tech spec.
CreateChild ==
    \E requirementType \in {"user_story", "tech_spec"}, fk \in BOOLEAN :
        \E parent \in ParentChoices(db, requirementType) :
            \E res \in {createRequirementHandler(
                            db, nextId,
                            NewRequirement((CHOOSE p \in db.projects : TRUE).id,
                                           ComponentId(db, "api"),
                                           requirementType, parent),
                            fk, FALSE)} :
                ApiStep("create", nextId, fk, res) /\ UNCHANGED hist

InitChildren ==
    /\ db = StoriesStore.db
    /\ nextId = StoriesStore.nextId
    /\ last = NoOp
    /\ steps = MaxChildSteps
    /\ hist = <<>>
    /\ reader = IdleReader
    /\ requests = NoRequests

NextChildren == CreateChild

SpecChildren == InitChildren /\ [][NextChildren]_vars

\* Create requests served at the same time.  Each request is a goroutine of
\* the HTTP server running createRequirementHandler for the same body without
\* a key: GenerateNextRequirementKey, then the INSERT of CreateRequirement,
\* then its audit entry, each a statement of its own on the shared database.
NumRequests == 2

Clients == 1..NumRequests

\* The bodies a client sends for the imported store.
RequestBodies(d) ==
    UNION {{NewRequirement(x[1].id, x[2].id, x[3], parent) :
               parent \in ParentChoices(d, x[3])} :
           x \in d.projects \X d.components \X RequirementTypes}

\* GenerateNextRequirementKey for the request's body.
GenerateKey(i) ==
    /\ requests[i].pc = "generate"
    /\ \E g \in {GenerateNextRequirementKey(
                      db, requests[i].body.project_id, requests[i].body.component_id,
                      requests[i].body.requirement_type, requests[i].body.parent)} :
          requests' = [requests EXCEPT
                          ![i].pc = IF g.err THEN "failed" ELSE "insert",
                          ![i].body.requirement_key = g.key]
    /\ UNCHANGED <<db, nextId, last, steps, hist, reader>>

\* CreateRequirement: generateID and the INSERT INTO requirements.
InsertNode(i) ==
    /\ requests[i].pc = "insert"
    /\ \E fk \in BOOLEAN :
          \E w \in {InsertRequirement(Begin(db, nextId + 1, fk, 0),
                                      [requests[i].body EXCEPT !.id = nextId])} :
              /\ db' = w.db
              /\ nextId' = nextId + 1
              /\ requests' = [requests EXCEPT
                                  ![i].pc = IF w.err THEN "failed" ELSE "audit",
                                  ![i].id = IF w.err THEN NULL ELSE nextId]
    /\ reader' = Committed(reader, db')
    /\ UNCHANGED <<last, steps, hist>>

\* CreateRequirement: logRequirementChange(req.ID, "created", nil, req).
WriteAudit(i) ==
    /\ requests[i].pc = "audit"
    /\ \E fk \in BOOLEAN :
          \E res \in {logRequirementChange(
                          db, nextId, requests[i].id, "created", <<>>,
                          <<[requests[i].body EXCEPT !.id = requests[i].id]>>,
                          fk, FALSE)} :
              /\ db' = res.db
              /\ nextId' = res.nextId
              /\ requests' = [requests EXCEPT
                                  ![i].pc = IF res.err THEN "failed" ELSE "done"]
    /\ reader' = Committed(reader, db')
    /\ UNCHANGED <<last, steps, hist>>

InitRequests ==
    /\ db = ImportedStore.db
    /\ nextId = ImportedStore.nextId
    /\ last = NoOp
    /\ steps = 0
    /\ hist = <<>>
    /\ reader = IdleReader
    /\ \E body \in RequestBodies(ImportedStore.db) :
          requests = [i \in Clients |-> [pc |-> "generate", body |-> body, id |-> NULL]]

NextRequests ==
    \E i \in Clients : GenerateKey(i) \/ InsertNode(i) \/ WriteAudit(i)

SpecRequests == InitRequests /\ [][NextRequests]_vars

\* -------------------------------------------------------------- properties

\* C1: an import that returns an error at any step (project upsert, cleanup,
\* component, requirement node at any depth, implementation, coverage row,
\* endpoint or commit) leaves the persisted store equal to the store before
\* the call.
ImportErrorLeavesStoreUntouched ==
    [][(last'.op = "import" /\ last'.err) => db' = db]_vars

\* An import failed after its transaction had already written to the tables.
FailedImportHadWritten ==
    last.op = "import" /\ last.err /\ last.dirty /\ db # EmptyDB

\* A root node of the document names a component the document does not list.
UndeclaredComponent(doc) ==
    \E k \in 1..Len(doc.requirements) :
        \A c \in 1..Len(doc.components) :
            doc.components[c].id # doc.requirements[k].component_id

\* C2: importing, in either mode, a document in which a root node names a
\* component missing from the document's component list returns an error and
\* leaves the store as it was.
ImportRejectsUndeclaredComponent ==
    [][(last'.op = "import" /\ UndeclaredComponent(Docs[last'.doc]))
          => (last'.err /\ db' = db)]_vars

\* C3: exporting a stored project and importing the exported document in
\* Update mode succeeds and leaves the store unchanged.
ExportReimportLeavesStoreUnchanged ==
    [][(last'.op = "reimport") => (~last'.err /\ db' = db)]_vars

RECURSIVE NodeImpls(_)
RECURSIVE NodeImplsOfSeq(_, _)
\* <<key, layer, path>> for every implementation file of a node's subtree.
NodeImpls(node) ==
    {<<node.id, "backend", node.implementation.backend[k].path>> :
        k \in 1..Len(node.implementation.backend)}
    \cup {<<node.id, "frontend", node.implementation.frontend[k].path>> :
             k \in 1..Len(node.implementation.frontend)}
    \cup {<<node.id, "database", node.implementation.database[k].path>> :
             k \in 1..Len(node.implementation.database)}
    \cup NodeImplsOfSeq(node.children, 1)
NodeImplsOfSeq(nodes, i) ==
    IF i > Len(nodes) THEN {} ELSE NodeImpls(nodes[i]) \cup NodeImplsOfSeq(nodes, i + 1)

\* <<key, file, test name>> for every test function listed under a node.
TestFileLinks(key, testFiles) ==
    UNION {{<<key, testFiles[k].file, testFiles[k].functions[j]>> :
               j \in 1..Len(testFiles[k].functions)} : k \in 1..Len(testFiles)}

RECURSIVE NodeLinks(_)
RECURSIVE NodeLinksOfSeq(_, _)
NodeLinks(node) ==
    TestFileLinks(node.id, node.tests.backend)
    \cup TestFileLinks(node.id, node.tests.frontend)
    \cup NodeLinksOfSeq(node.children, 1)
NodeLinksOfSeq(nodes, i) ==
    IF i > Len(nodes) THEN {} ELSE NodeLinks(nodes[i]) \cup NodeLinksOfSeq(nodes, i + 1)

\* The stored implementation records, as <<key, layer, path>> (the empty key
\* for a record whose requirement is gone).
StoredImpls(d) ==
    {<<IF \E r \in d.requirements : r.id = i.requirement_id
       THEN (CHOOSE r \in d.requirements : r.id = i.requirement_id).requirement_key
       ELSE <<>>, i.layer, i.file_path>> : i \in d.implementations}

\* The stored test cases as <<file, test name>>.
StoredTests(d) ==
    {<<IF \E f \in d.test_files : f.id = t.test_file_id
       THEN (CHOOSE f \in d.test_files : f.id = t.test_file_id).file_path
       ELSE "", t.test_name>> : t \in d.test_cases}

\* The stored coverage links as <<key, file, test name>>.
StoredLinks(d) ==
    {<<IF \E r \in d.requirements : r.id = c.requirement_id
       THEN (CHOOSE r \in d.requirements : r.id = c.requirement_id).requirement_key
       ELSE <<>>,
       IF \E t \in d.test_cases, f \in d.test_files :
              t.id = c.test_case_id /\ f.id = t.test_file_id
       THEN (CHOOSE f \in d.test_files :
                 \E t \in d.test_cases : t.id = c.test_case_id /\ f.id = t.test_file_id).file_path
       ELSE "",
       IF \E t \in d.test_cases : t.id = c.test_case_id
       THEN (CHOOSE t \in d.test_cases : t.id = c.test_case_id).test_name
       ELSE "">> : c \in d.coverage}

\* C4: after a successful import in Overwrite mode the project holds only the
\* imported document's entities: no requirement node, implementation record,
\* test artifact or coverage link of an earlier document remains.
OverwriteLeavesOnlyDocument ==
    (last.op = "import" /\ last.overwrite /\ ~last.err) =>
        /\ {r.requirement_key : r \in db.requirements} = DocKeys(Docs[last.doc])
        /\ StoredImpls(db) = NodeImplsOfSeq(Docs[last.doc].requirements, 1)
        /\ StoredLinks(db) = NodeLinksOfSeq(Docs[last.doc].requirements, 1)
        /\ StoredTests(db) =
               {<<l[2], l[3]>> : l \in NodeLinksOfSeq(Docs[last.doc].requirements, 1)}
        /\ {f.file_path : f \in db.test_files} =
               {l[2] : l \in NodeLinksOfSeq(Docs[last.doc].requirements, 1)}

\* An Overwrite import succeeded on a store that held nodes of other keys with
\* implementation records and coverage links.
OverwriteReplacedOtherNodes ==
    last.op = "import" /\ last.overwrite /\ ~last.err /\ last.others

\* C5: a successful import in Update mode leaves every stored requirement whose
\* key does not occur in the document unchanged, together with its
\* implementation records and coverage links.
UpdateKeepsOtherNodes ==
    [][(last'.op = "import" /\ ~last'.overwrite /\ ~last'.err) =>
          \A r \in db.requirements :
              r.requirement_key \notin DocKeys(Docs[last'.doc]) =>
                  /\ r \in db'.requirements
                  /\ {i \in db'.implementations : i.requirement_id = r.id}
                         = {i \in db.implementations : i.requirement_id = r.id}
                  /\ {c \in db'.coverage : c.requirement_id = r.id}
                         = {c \in db.coverage : c.requirement_id = r.id}]_vars

\* An Update import rewrote a stored node while the store held other nodes
\* with implementation records and coverage links.
UpdateTouchedBesideOtherNodes ==
    last.op = "import" /\ ~last.overwrite /\ ~last.err /\ last.others /\ last.existing

\* C9: every requirement node a successful import inserts or updates gets
\* exactly one audit entry in that transaction: "created" for an inserted
\* node, "updated" for a node that existed.
ImportWritesOneAuditEntryPerNode ==
    [][(last'.op = "import" /\ ~last'.err) =>
          \A r \in db'.requirements :
              r.requirement_key \in DocKeys(Docs[last'.doc]) =>
                  /\ Cardinality({c \in db'.changes \ db.changes :
                                     c.requirement_id = r.id}) = 1
                  /\ \A c \in db'.changes \ db.changes :
                         c.requirement_id = r.id =>
                             c.change_type = IF r.id \in ReqIds(db) THEN "updated"
                                             ELSE "created"]_vars

\* C6: starting from a component without Scope nodes, the N-th pair of
\* GenerateNextRequirementKey (type scope) and CreateRequirement yields the key
\* SCOPE-N, for every N, also beyond 10.
ScopeKeysCountUp ==
    \A k \in 1..Len(hist) : hist[k] = ScopeKey(k)

\* C7: in every reachable store the key GenerateNextRequirementKey returns for
\* a project, component, type and parent is not the key of a requirement
\* already stored in that project.
GeneratedKeyIsUnused ==
    \A p \in db.projects, c \in db.components, t \in RequirementTypes :
        \A parent \in ParentChoices(db, t) :
            \/ GenerateNextRequirementKey(db, p.id, c.id, t, parent).err
            \/ \A r \in db.requirements :
                   r.project_id = p.id =>
                       r.requirement_key #
                           GenerateNextRequirementKey(db, p.id, c.id, t, parent).key

\* C8: a successful DeleteRequirement of a Scope node removes the node, all
\* its descendants and every implementation record and coverage link attached
\* to them, and keeps every audit entry recorded for the deleted nodes.
DeleteScopeCascadesAndKeepsAudit ==
    [][(/\ last'.op = "delete" /\ ~last'.err
        /\ \E r \in db.requirements : r.id = last'.target /\ IsScope(r))
          => /\ \A r \in db'.requirements :
                    r.id \notin Descendants(db, {last'.target})
             /\ \A i \in db'.implementations :
                    i.requirement_id \notin Descendants(db, {last'.target})
             /\ \A c \in db'.coverage :
                    c.requirement_id \notin Descendants(db, {last'.target})
             /\ \A c \in db.changes :
                    c.requirement_id \in Descendants(db, {last'.target})
                        => c \in db'.changes]_vars

\* C10: when the audit write of CreateRequirement, UpdateRequirement,
\* UpdateRequirementDescription or DeleteRequirement fails, the call returns an
\* error and the node insert, update or delete is not persisted.
AuditFailureAbortsMutation ==
    [][(last'.op \in {"create", "update", "describe", "delete"} /\ last'.audit)
          => (last'.err /\ db' = db)]_vars

RECURSIVE SubtreeNodes(_)
RECURSIVE NodesOfSeq(_, _)
\* Every node of a subtree, of a sequence of subtrees.
SubtreeNodes(node) == {node} \cup NodesOfSeq(node.children, 1)
NodesOfSeq(nodes, i) ==
    IF i > Len(nodes) THEN {} ELSE SubtreeNodes(nodes[i]) \cup NodesOfSeq(nodes, i + 1)

\* The stored row carries the mutable fields of the document node.
FieldsMatch(row, node) ==
    /\ row.requirement_key = node.id
    /\ row.requirement_type = node.type
    /\ row.title = node.title
    /\ row.description = node.description
    /\ row.category = node.category
    /\ row.priority = node.priority
    /\ row.status = node.status
    /\ UnmarshalStringSliceJSON(row.acceptance_criteria) = node.acceptance_criteria

\* In store d the node with identifier id carries exactly the implementation
\* records and coverage links the document lists for key, each once.
AttachmentsMatch(d, id, key, doc) ==
    /\ {t \in StoredImpls(d) : t[1] = key}
           = {t \in NodeImplsOfSeq(doc.requirements, 1) : t[1] = key}
    /\ Cardinality({i \in d.implementations : i.requirement_id = id})
           = Cardinality({t \in NodeImplsOfSeq(doc.requirements, 1) : t[1] = key})
    /\ {t \in StoredLinks(d) : t[1] = key}
           = {t \in NodeLinksOfSeq(doc.requirements, 1) : t[1] = key}
    /\ Cardinality({c \in d.coverage : c.requirement_id = id})
           = Cardinality({t \in NodeLinksOfSeq(doc.requirements, 1) : t[1] = key})

\* C12: after a successful Update import of a document containing key K,
\* where K was already stored, the node keeps its identifier, its fields are
\* the document's and its implementation records and coverage links are
\* exactly the ones the document lists for K.
UpdateReattachesExistingNode ==
    [][(last'.op = "import" /\ ~last'.overwrite /\ ~last'.err) =>
          \A r \in db.requirements :
              \A node \in NodesOfSeq(Docs[last'.doc].requirements, 1) :
                  node.id = r.requirement_key =>
                      /\ \E n \in db'.requirements : n.id = r.id /\ FieldsMatch(n, node)
                      /\ AttachmentsMatch(db', r.id, node.id, Docs[last'.doc])]_vars

\* An Update import succeeded on a node that had an implementation record and
\* a coverage link, and a stored node of the document now has neither.
UpdatePurgedAttachments ==
    /\ last.op = "import" /\ ~last.overwrite /\ ~last.err /\ last.attached
    /\ \E r \in db.requirements :
          /\ r.requirement_key \in DocKeys(Docs[last.doc])
          /\ ~\E i \in db.implementations : i.requirement_id = r.id
          /\ ~\E c \in db.coverage : c.requirement_id = r.id

\* Stores d and e hold the same components, requirement rows, test files and
\* test cases, and the same implementation records and coverage links (which
\* an import deletes and inserts again under fresh identifiers).
SameRows(d, e) ==
    /\ d.components = e.components
    /\ d.requirements = e.requirements
    /\ d.test_files = e.test_files
    /\ d.test_cases = e.test_cases
    /\ StoredImpls(d) = StoredImpls(e)
    /\ Cardinality(d.implementations) = Cardinality(e.implementations)
    /\ StoredLinks(d) = StoredLinks(e)
    /\ Cardinality(d.coverage) = Cardinality(e.coverage)

\* C13: after a successful import of a document, importing the same document
\* again in Update mode adds and removes no row.
UpdateImportIsIdempotent ==
    [][(last'.op = "import" /\ last'.repeat /\ ~last'.overwrite) => SameRows(db, db')]_vars

\* A document with implementation records and coverage links on existing
\* nodes was imported successfully a second time in a row, in Update mode.
ImportedTwiceInARow ==
    /\ last.op = "import" /\ last.repeat /\ ~last.overwrite /\ ~last.err
    /\ last.attached /\ db.implementations # {} /\ db.coverage # {}

RECURSIVE NodeEdges(_, _, _)
RECURSIVE NodeEdgesOfSeq(_, _, _, _)
\* <<key, key of the node directly above (<<>> for a root), component>> for
\* every node of a subtree stored under the given component.
NodeEdges(node, parentKey, component) ==
    {<<node.id, parentKey, component>>}
    \cup NodeEdgesOfSeq(node.children, 1, node.id, component)
NodeEdgesOfSeq(nodes, i, parentKey, component) ==
    IF i > Len(nodes) THEN {}
    ELSE NodeEdges(nodes[i], parentKey, component)
         \cup NodeEdgesOfSeq(nodes, i + 1, parentKey, component)

\* The component key a root node resolves to ("" when the document does not
\* list it).
ResolvedComponent(doc, root) ==
    IF \E c \in 1..Len(doc.components) : doc.components[c].id = root.component_id
    THEN root.component_id ELSE ""

DocEdges(doc) ==
    UNION {NodeEdges(doc.requirements[k], <<>>,
                     ResolvedComponent(doc, doc.requirements[k])) :
              k \in 1..Len(doc.requirements)}

\* The stored requirement rows as <<key, key of the parent row, component key>>.
StoredEdges(d) ==
    {<<r.requirement_key,
       IF r.parent = NULL THEN <<>>
       ELSE IF \E q \in d.requirements : q.id = r.parent
       THEN (CHOOSE q \in d.requirements : q.id = r.parent).requirement_key
       ELSE <<"?">>,
       IF \E c \in d.components : c.id = r.component_id
       THEN (CHOOSE c \in d.components : c.id = r.component_id).component_key
       ELSE "">> : r \in d.requirements}

\* C14: after a successful Overwrite import the stored nodes correspond one to
\* one to the document's nodes by key, roots have a null parent, every other
\* node's parent is the stored node of the document node directly above it, and
\* every node of a subtree is stored under the component of the subtree's root.
OverwriteBuildsDocumentTree ==
    (last.op = "import" /\ last.overwrite /\ ~last.err) =>
        /\ StoredEdges(db) = DocEdges(Docs[last.doc])
        /\ Cardinality(db.requirements) = Cardinality(DocKeys(Docs[last.doc]))

\* An Overwrite import stored a three-level subtree.
OverwriteStoredThreeLevels ==
    /\ last.op = "import" /\ last.overwrite /\ ~last.err
    /\ \E s, u, t \in db.requirements :
          /\ IsScope(s) /\ s.parent = NULL
          /\ IsUserStory(u) /\ u.parent = s.id
          /\ IsTechSpec(t) /\ t.parent = u.id

\* The element with the given key occurs exactly once in a sequence of
\* exported nodes.
ExportedOnce(nodes, key) ==
    Cardinality({k \in 1..Len(nodes) : nodes[k].id = key}) = 1

\* The exported scope list holds the tech spec under its user story under its
\* scope, once, with the stored implementation files and linked tests.
TechSpecExported(d, scopes, s, u, t) ==
    \E k \in 1..Len(scopes) :
        /\ scopes[k].id = s.requirement_key
        /\ \E j \in 1..Len(scopes[k].user_stories) :
              /\ scopes[k].user_stories[j].id = u.requirement_key
              /\ ExportedOnce(scopes[k].user_stories[j].tech_specs, t.requirement_key)
              /\ \A m \in 1..Len(scopes[k].user_stories[j].tech_specs) :
                    scopes[k].user_stories[j].tech_specs[m].id = t.requirement_key =>
                        /\ scopes[k].user_stories[j].tech_specs[m].implementation
                               = getImplementationForRequirement(d, t.id)
                        /\ scopes[k].user_stories[j].tech_specs[m].test_coverage
                               = getTestCoverageForRequirement(d, t.project_id, t.id)

\* C15: the export of a project holds every Scope once, every UserStory once
\* inside its parent Scope and every TechSpec once inside its parent UserStory
\* of the exported Scope list, with every implementation record and coverage
\* link of a node attached to that node (exported Scopes and UserStories have
\* no place for them, so they must have none).
ExportIsComplete ==
    \A p \in db.projects :
        \A r \in {x \in db.requirements : x.project_id = p.id} :
            /\ IsScope(r) =>
                   ExportedOnce(getExportDataAsRTM(db, p.project_key).scopes,
                                r.requirement_key)
            /\ (IsScope(r) \/ IsUserStory(r)) =>
                   /\ ~\E i \in db.implementations : i.requirement_id = r.id
                   /\ ~\E c \in db.coverage : c.requirement_id = r.id
            /\ IsUserStory(r) =>
                   \A s \in db.requirements :
                       (s.id = r.parent /\ IsScope(s)) =>
                           \E k \in 1..Len(getExportDataAsRTM(db, p.project_key).scopes) :
                               /\ getExportDataAsRTM(db, p.project_key).scopes[k].id
                                      = s.requirement_key
                               /\ ExportedOnce(
                                      getExportDataAsRTM(db, p.project_key).scopes[k].user_stories,
                                      r.requirement_key)
            /\ IsTechSpec(r) =>
                   \A s, u \in db.requirements :
                       (u.id = r.parent /\ IsUserStory(u) /\ s.id = u.parent /\ IsScope(s)) =>
                           TechSpecExported(db, getExportDataAsRTM(db, p.project_key).scopes,
                                            s, u, r)

\* The document an export returns: project, components and scopes.
ExportDocument(x) ==
    [project |-> x.project, components |-> x.components, scopes |-> x.scopes]

\* C16: an export interleaved with imports returns the export of one of the
\* stores committed between its first and its last query (the store before an
\* import or the store after it), never a mixture of two of them.
ExportSeesOneStore ==
    reader.pc = "done" =>
        \E v \in reader.views :
            /\ \E p \in v.projects : p.project_key = reader.project.project_key
            /\ ExportDocument(reader.doc) =
                  ExportDocument(getExportDataAsRTM(v, reader.project.project_key))


\* C19: no import, in either mode, deletes a component: every component row
\* stored before the call is stored after it under the same identifier, also
\* when the document does not list the component.
ImportKeepsComponents ==
    [][\A c \in db.components :
          \E c2 \in db'.components :
              /\ c2.id = c.id
              /\ c2.project_id = c.project_id
              /\ c2.component_key = c.component_key]_vars


\* A node of the document has a type other than scope, user_story, tech_spec.
HasUnknownType(doc) ==
    \E node \in NodesOfSeq(doc.requirements, 1) :
        ToLower(node.type) \notin {"scope", "user_story", "tech_spec"}

\* C17: an import of a file that cannot be parsed, or of a document with a
\* node of unknown type, returns an error before any transaction has begun and
\* persists nothing.
ShapeErrorsPersistNothing ==
    [][(last'.op = "import"
        /\ (last'.doc = 0 \/ HasUnknownType(AllDocs[last'.doc])))
       => (last'.err /\ ~last'.dirty /\ db' = db)]_vars


\* The stored requirement nodes of a project with the given key.
NodesWithKey(d, projectKey, key) ==
    {r \in d.requirements :
        /\ r.requirement_key = key
        /\ \E p \in d.projects : p.id = r.project_id /\ p.project_key = projectKey}

\* C18: for the document with two nodes of one key, an Overwrite import fails
\* and leaves the store as it was, an Update import succeeds and leaves exactly
\* one stored node with that key; and no reachable store holds two requirement
\* nodes with the same project and key.
DuplicateNodeKeyHandled ==
    /\ [](\A r1, r2 \in db.requirements :
            (r1.project_id = r2.project_id
             /\ r1.requirement_key = r2.requirement_key) => r1 = r2)
    /\ [][(last'.op = "import" /\ last'.doc = TwinDocId) =>
            IF last'.overwrite
            THEN last'.err /\ db' = db
            ELSE /\ ~last'.err
                 /\ Cardinality(NodesWithKey(db', P1.id, Scope3.id)) = 1]_vars

\* An Overwrite import of the document with two nodes of one key failed
\* after it had written.
OverwriteRejectedTwinKey ==
    /\ last.op = "import" /\ last.doc = TwinDocId
    /\ last.overwrite /\ last.err /\ last.dirty

\* A stored component of a project, by key.
ComponentsWithKey(d, projectKey, key) ==
    {c \in d.components :
        /\ c.component_key = key
        /\ \E p \in d.projects : p.id = c.project_id /\ p.project_key = projectKey}

\* The stored row carries the attributes the document gives the component.
ComponentMatches(c, component) ==
    /\ c.component_key = component.id
    /\ c.name = component.name
    /\ c.component_type = component.type
    /\ c.technology = component.technology
    /\ c.description = component.description

\* C20: component import is insert-if-missing. A component row that is still
\* stored after an import has the attributes it had before, and an Update
\* import keeps the row of every (project, component key) it found; the
\* document listing one component key twice leaves one row with that key,
\* with the attributes of the first occurrence when the import inserted it;
\* and no reachable store holds two components with the same project and key.
ComponentInsertIfMissing ==
    /\ [](\A c1, c2 \in db.components :
            (c1.project_id = c2.project_id
             /\ c1.component_key = c2.component_key) => c1 = c2)
    /\ [][(last'.op = "import" /\ ~last'.err /\ last'.doc # 0) =>
            /\ \A c \in db.components, c2 \in db'.components :
                  (c2.id = c.id
                   \/ (~last'.overwrite /\ c2.project_id = c.project_id
                       /\ c2.component_key = c.component_key)) => c2 = c
            /\ last'.doc = TwoApisDocId =>
                  /\ Cardinality(ComponentsWithKey(db', P1.id, Api.id)) = 1
                  /\ (last'.overwrite \/ ComponentsWithKey(db, P1.id, Api.id) = {})
                        => \A c \in ComponentsWithKey(db', P1.id, Api.id) :
                               ComponentMatches(c, Api)]_vars

\* An Update import listing component api with other attributes succeeded on
\* a store that held api, and the stored row is the one found.
ListedComponentKeptAttributes ==
    /\ last.op = "import" /\ last.doc = RenamedApiDocId
    /\ ~last.overwrite /\ ~last.err
    /\ \E c \in ComponentsWithKey(db, P1.id, Api.id) : ComponentMatches(c, Api)


\* The stored project rows with the given key.
ProjectsWithKey(d, key) == {p \in d.projects : p.project_key = key}

\* The stored row carries the attributes of the document's project.
ProjectMatches(p, project) ==
    /\ p.project_key = project.id
    /\ p.name = project.name
    /\ p.description = project.description
    /\ p.repository_url = project.repository
    /\ p.version = project.version

\* C21: after a successful import in either mode there is exactly one project
\* row with the document's project key, carrying the document's name,
\* description, repository and version, under the identifier the key had
\* before when a row existed; and no import removes a project row.
ImportUpsertsProject ==
    [][(last'.op = "import") =>
          /\ \A p \in db.projects : \E q \in db'.projects : q.id = p.id
          /\ ~last'.err =>
               LET project == ProjDocs[last'.doc].project
               IN /\ Cardinality(ProjectsWithKey(db', project.id)) = 1
                  /\ \A q \in ProjectsWithKey(db', project.id) :
                        /\ ProjectMatches(q, project)
                        /\ \A p \in ProjectsWithKey(db, project.id) : q.id = p.id]_vars

\* An Overwrite import succeeded on a project stored under other attributes.
OverwriteRenamedProject ==
    /\ last.op = "import" /\ last.overwrite /\ ~last.err /\ last.existing
    /\ last.doc = 2
    /\ \E p \in db.projects : ProjectMatches(p, P1Renamed)


\* The rows a project owns: its components, requirement nodes and test files,
\* the implementation records and coverage links of its nodes, and the test
\* cases of its test files.
OwnedRows(d, projectID) ==
    [components |-> {c \in d.components : c.project_id = projectID},
     requirements |-> {r \in d.requirements : r.project_id = projectID},
     implementations |-> {i \in d.implementations :
                             i.requirement_id \in ProjectReqIds(d, projectID)},
     test_files |-> {t \in d.test_files : t.project_id = projectID},
     test_cases |-> {t \in d.test_cases :
                        t.test_file_id \in ProjectTestFileIds(d, projectID)},
     coverage |-> {c \in d.coverage :
                      c.requirement_id \in ProjectReqIds(d, projectID)}]

NoRows ==
    [components |-> {}, requirements |-> {}, implementations |-> {},
     test_files |-> {}, test_cases |-> {}, coverage |-> {}]

CoveragePairs(d) ==
    {<<r.requirement_key, f.file_path, t.test_name>> :
        <<r, f, t>> \in
            {x \in d.requirements \X d.test_files \X d.test_cases :
                /\ x[3].test_file_id = x[2].id
                /\ \E c \in d.coverage :
                      c.requirement_id = x[1].id /\ c.test_case_id = x[3].id}}

\* C23: after any sequence of imports there is one test file per (project,
\* file path), one test case per (test file, test name) and one coverage link
\* per (requirement node, test case); the import of a document that lists a
\* test function twice for a node and one test file under several nodes
\* succeeds, with one row for the file, one per test name and one link per
\* (node, test), and an Update import keeps the test file and test case rows
\* it found.
TestArtifactsDeduplicated ==
    /\ [](/\ \A t1, t2 \in db.test_files :
               (t1.project_id = t2.project_id /\ t1.file_path = t2.file_path)
                  => t1 = t2
          /\ \A t1, t2 \in db.test_cases :
               (t1.test_file_id = t2.test_file_id /\ t1.test_name = t2.test_name)
                  => t1 = t2
          /\ \A c1, c2 \in db.coverage :
               (c1.requirement_id = c2.requirement_id
                /\ c1.test_case_id = c2.test_case_id) => c1 = c2)
    /\ [][(last'.op = "import" /\ last'.doc = SharedTestsDocId) =>
            /\ ~last'.err
            /\ {t.file_path : t \in db'.test_files} = {"auth_test.go"}
            /\ {t.test_name : t \in db'.test_cases} = {"TestLogin", "TestLogout"}
            /\ CoveragePairs(db') =
                 {<<Scope5.id, "auth_test.go", "TestLogin">>,
                  <<Scope6.id, "auth_test.go", "TestLogin">>,
                  <<Scope6.id, "auth_test.go", "TestLogout">>}
            /\ ~last'.overwrite =>
                 /\ db.test_files \subseteq db'.test_files
                 /\ db.test_cases \subseteq db'.test_cases]_vars

\* An Update import of the document with the repeated tests succeeded on a
\* store that held its nodes, test file and test cases.
RepeatedTestsReimported ==
    /\ last.op = "import" /\ last.doc = SharedTestsDocId
    /\ ~last.overwrite /\ ~last.err /\ last.existing
    /\ Cardinality(db.test_cases) = 2
    /\ Cardinality(db.coverage) = 3


\* The stored parent of a node, as a set: empty for a root or a missing row.
ParentRows(d, r) == {q \in d.requirements : q.id = r.parent}

\* C24: in every reachable store each node's type fits its parent's: a Scope
\* has a null parent, the parent of a UserStory, if any, is a Scope, and the
\* parent of a TechSpec, if any, is a UserStory.
TypesFitParents ==
    \A r \in db.requirements :
        /\ IsScope(r) => r.parent = NULL
        /\ IsUserStory(r) => \A q \in ParentRows(db, r) : IsScope(q)
        /\ IsTechSpec(r) => \A q \in ParentRows(db, r) : IsUserStory(q)


\* The children of a node and everything below them.
Below(d, id) == Descendants(d, {x.id : x \in {y \in d.requirements : y.parent = id}})

\* C25: after any sequence of imports the parent relation of the stored
\* requirement nodes has no cycle: no node is its own parent or ancestor.
ParentRelationAcyclic ==
    \A r \in db.requirements : r.id \notin Below(db, r.id)


\* The largest number in a non-empty set of numbers.
Largest(ns) == CHOOSE n \in ns : \A m \in ns : m <= n

\* The key the numbering rule gives a new child of the given type: the
\* parent's key, the infix of the type, and 1 or one more than the largest
\* numeric suffix among the parent's children of that type.
ExpectedChildKey(d, parentID, requirementType) ==
    LET parentKey == (CHOOSE r \in d.requirements : r.id = parentID).requirement_key
        siblings == {r \in d.requirements :
                        r.parent = parentID /\ r.requirement_type = requirementType}
        n == IF siblings = {} THEN 1
             ELSE 1 + Largest({Atoi(TrailingDigits(r.requirement_key), 0) :
                                  r \in siblings})
    IN parentKey \o (IF requirementType = "user_story" THEN USInfix ELSE TSInfix)
                 \o Itoa(n)

\* C26: the key generated for a new user story or tech spec is the parent's
\* key, "-US-" or "-TS-", and 1 when the parent has no child of that type,
\* otherwise one more than the largest numeric suffix among the parent's
\* children of that type, whatever the other parents' children are.
ChildKeysCountUp ==
    [][(last'.op = "create" /\ ~last'.err) =>
          \A r \in db'.requirements :
              r.id = last'.target =>
                  r.requirement_key =
                      ExpectedChildKey(db, r.parent, r.requirement_type)]_vars


\* The stored node with the given identifier, as a snapshot: <<>> when absent.
Snapshot(d, id) ==
    IF id \in ReqIds(d) THEN <<CHOOSE r \in d.requirements : r.id = id>> ELSE <<>>

\* C27: each successful create, update, description update and delete of a
\* requirement appends exactly one audit entry for the node: 'created' with an
\* empty old snapshot and the stored node as new snapshot, 'updated' with the
\* stored node before and after the call, 'deleted' with the stored node
\* before the call and an empty new snapshot.
MutationsAreAudited ==
    [][(last'.op \in {"create", "update", "describe", "delete"} /\ ~last'.err) =>
          \E e \in db'.changes :
              /\ db'.changes \ db.changes = {e}
              /\ e.requirement_id = last'.target
              /\ e.change_type = CASE last'.op = "create" -> "created"
                                   [] last'.op = "delete" -> "deleted"
                                   [] OTHER -> "updated"
              /\ e.old_values = Snapshot(db, last'.target)
              /\ e.new_values = Snapshot(db', last'.target)]_vars


ReferencesResolve ==
    /\ \A r \in db.requirements :
          /\ \E p \in db.projects : p.id = r.project_id
          /\ \E c \in db.components :
                c.id = r.component_id /\ c.project_id = r.project_id
          /\ r.parent # NULL =>
                \E q \in db.requirements :
                    q.id = r.parent /\ q.project_id = r.project_id
    /\ \A i \in db.implementations : i.requirement_id \in ReqIds(db)
    /\ \A c \in db.coverage :
          /\ c.requirement_id \in ReqIds(db)
          /\ \E t \in db.test_cases : t.id = c.test_case_id
    /\ \A t \in db.test_cases : \E f \in db.test_files : f.id = t.test_file_id


\* The request's node is stored as sent, with its 'created' audit entry.
StoredWithAudit(rq) ==
    /\ [rq.body EXCEPT !.id = rq.id] \in db.requirements
    /\ \E e \in db.changes :
          /\ e.requirement_id = rq.id
          /\ e.change_type = "created"
          /\ e.old_values = <<>>
          /\ e.new_values = <<[rq.body EXCEPT !.id = rq.id]>>

\* The nodes stored since the requests began.
CreatedNodes == db.requirements \ ImportedStore.db.requirements

\* The nodes of the requests whose INSERT succeeded.
InsertedNodes ==
    {[requests[i].body EXCEPT !.id = requests[i].id] :
        i \in {j \in DOMAIN requests : requests[j].id # NULL}}

====
